---------------------------- MODULE Spec2Model ----------------------------
(***************************************************************************)
(* Backtest pipeline of the Hyperliquid trading bot.                       *)
(*                                                                         *)
(*   Spec      one strategy evaluation: the signal list an evaluator built *)
(*             is scanned by simulate_trades, summarised by                *)
(*             calculate_trade_statistics and turned into a result row or  *)
(*             None by the evaluator's tail.                               *)
(*   SpecRank  ranking and persistence of result rows:                     *)
(*             group_best_results_by_coin and save_best_results.           *)
(*   SpecSweep one optimization run of the backtest page's worker thread:  *)
(*             _execute_optimization and _run_all_tests.                   *)
(*   SpecLive  calls of a live signal generator's generate_signal, which   *)
(*             loads the coin's parameters from the parameter store.       *)
(*   SpecLevels the support/resistance detector's distance filter and      *)
(*             nearest-level lookup applied to clustered levels.           *)
(*   SpecInd   the RSI and SMA-crossover evaluators from the candle closes *)
(*             to the returned row: calculate_rsi, calculate_sma,          *)
(*             run_rsi_backtest and run_sma_backtest.                      *)
(*   SpecRate  the rate limiter of the live generators' candle fetches:    *)
(*             _rate_limit and the HTTP request that follows it.           *)
(*   SpecRange the range evaluator: run_range_backtest's buy band, its     *)
(*             in_range flag and the signals it hands to simulate_trades.  *)
(*   SpecBand  the Bollinger band position, as the live generator and as   *)
(*             run_bollinger_bands_backtest compute it.                    *)
(*   SpecPivot the support/resistance detector's pivot scan:               *)
(*             find_support_resistance_levels.                             *)
(*   SpecShared two threads calling generate_signal on one generator       *)
(*             instance, whose parameters are instance attributes.         *)
(*   SpecPage  the backtest page's run button: run_backtest, the worker    *)
(*             thread it starts and the callbacks queued for the GUI       *)
(*             thread.  SpecPageFair adds that a started worker keeps      *)
(*             running.                                                    *)
(*   SpecSelect two optimizer runs from the strategy dropdown to the       *)
(*             persisted record: dispatch, result row and identifier.      *)
(*                                                                         *)
(* Python floats are modelled as exact rationals [n, d] in lowest terms.   *)
(* An optional value (None or a dict) is a sequence of length 0 or 1.      *)
(***************************************************************************)
EXTENDS Integers, Sequences, FiniteSets, TLC

VARIABLES
    evaluator,       \* which run_*_backtest is running
    signals,         \* the signal list handed to simulate_trades
    position_size,   \* USD size of every position
    idx,             \* index of the signal the for loop is at
    position,        \* simulate_trades' local `position` (<<>> is None)
    trades,          \* simulate_trades' local `trades`
    returned,        \* the list simulate_trades returned (<<>> before it returns)
    stats,           \* calculate_trade_statistics' result (<<>> is None)
    result,          \* the evaluator's return value (<<>> is None)
    pc,              \* position of the evaluation
    results,         \* SpecRank: the list of result rows given to ranking/saving
    best_per_coin,   \* SpecRank: group_best_results_by_coin(results)
    regrouped,       \* SpecRank: group_best_results_by_coin(best_per_coin)
    reordered,       \* SpecRank: another ordering of results
    best_reordered,  \* SpecRank: group_best_results_by_coin(reordered)
    saved,           \* SpecRank: the records save_best_results wrote, in order
    save_error,      \* SpecRank: save_best_results printed "Error saving results"
    rpc,             \* SpecRank: position of the ranking run
    signal_type,        \* SpecSweep: signal_var, the selected signal
    position_size_text, \* SpecSweep: position_size_var, the text of the entry
    selected_coins,     \* SpecSweep: the coins handed to _execute_optimization
    running_backtest,   \* SpecSweep: self.running_backtest
    combinations,       \* SpecSweep: _run_all_tests' local `combinations`
    coin_i,             \* SpecSweep: index of the coin the outer loop is at
    combo_i,            \* SpecSweep: index of the tuple the inner loop is at
    test_count,         \* SpecSweep: _run_all_tests' local `test_count`
    df,                 \* SpecSweep: the fetched series (<<>> is None, else <<len(df)>>)
    all_results,        \* SpecSweep: the list of rows collected so far
    fetch_log,          \* SpecSweep: the calls of fetch_historical_data, in order
    eval_log,           \* SpecSweep: the calls of _run_strategy_backtest, in order
    scheduled,          \* SpecSweep: the callbacks handed to parent.after, in order
    written,            \* SpecSweep: the records save_best_results wrote
    write_error,        \* SpecSweep: save_best_results printed "Error saving results"
    spc,                \* SpecSweep: position of the worker thread
    generator,          \* SpecLive: which live signal generator is called
    store,              \* SpecLive: the persisted records, oldest first
    live_coin,          \* SpecLive: the coin of the current generate_signal call
    live_params,        \* SpecLive: the generator's per-coin parameter attributes
    live_log,           \* SpecLive: the logger calls of the current call, in order
    live_result,        \* SpecLive: how the current call ended
    live_calls,         \* SpecLive: the number of calls made so far
    lpc,                \* SpecLive: position of the current call
    clustered_resistance, \* SpecLevels: _cluster_levels(highs, ...)
    clustered_support,    \* SpecLevels: _cluster_levels(lows, ...)
    min_distance_percent, \* SpecLevels: self.min_distance_percent, in tenths
    current_price,        \* SpecLevels: the last close
    resistance_levels,    \* SpecLevels: the kept resistance levels
    support_levels,       \* SpecLevels: the kept support levels
    nearest_resistance,   \* SpecLevels: _find_nearest_levels(...)[0] (<<>> is None)
    nearest_support,      \* SpecLevels: _find_nearest_levels(...)[1] (<<>> is None)
    vpc,                  \* SpecLevels: position of the detector
    ind_strategy,       \* SpecInd: "rsi" (run_rsi_backtest) or "sma" (run_sma_backtest)
    close,              \* SpecInd: df['close']
    ind_params,         \* SpecInd: <<period, oversold, overbought>> or <<short, long>>
    rsi_series,         \* SpecInd: df_copy['rsi'] (an element <<>> is NaN)
    short_sma,          \* SpecInd: df_copy['short_sma']
    long_sma,           \* SpecInd: df_copy['long_sma']
    ind_signals,        \* SpecInd: the evaluator's local `signals`
    ind_i,              \* SpecInd: the candle the evaluator's loop is at
    ind_result,         \* SpecInd: the evaluator's return value (<<>> is None)
    ipc,                \* SpecInd: position of the evaluator
    now,               \* SpecRate: time.time(), in tenths of a second
    last_request_time, \* SpecRate: each generator's self.last_request_time
    callers,           \* SpecRate: each calling thread's fetch path, position and wake-up time
    requests,          \* SpecRate: the requests.get calls issued to the klines endpoint, in order
    range_df,      \* SpecRange: the candles given to run_range_backtest, each [low, close]
    range_params,  \* SpecRange: <<long_offset, tolerance>> in tenths of a percent
    in_range,      \* SpecRange: run_range_backtest's local `in_range`
    range_signals, \* SpecRange: run_range_backtest's local `signals`
    range_i,       \* SpecRange: the candle run_range_backtest's loop is at
    range_trades,  \* SpecRange: simulate_trades(signals, position_size)
    range_result,  \* SpecRange: run_range_backtest's return value (<<>> is None)
    gpc,           \* SpecRange: position of run_range_backtest
    band_price,           \* SpecBand: the close the band position is computed for
    band_upper,           \* SpecBand: the upper band at that candle
    band_lower,           \* SpecBand: the lower band at that candle
    live_bb_position,     \* SpecBand: _calculate_bb_position's return value (<<>> before the call)
    backtest_bb_position, \* SpecBand: run_bollinger_bands_backtest's bb_position (<<>> before it is set)
    pivot_df, \* SpecPivot: the candles given to _find_pivot_points, each [high, low]
    window,   \* SpecPivot: _find_pivot_points' window argument
    pivot_i,  \* SpecPivot: the candle _find_pivot_points' loop is at (counted from 1)
    highs,    \* SpecPivot: _find_pivot_points' local `highs`
    lows,     \* SpecPivot: _find_pivot_points' local `lows`
    pivots,   \* SpecPivot: the returned (highs, lows) (<<>> before the return)
    shared_generator, \* SpecShared: the generator instance the threads call
    shared_store,     \* SpecShared: the parameter store the generator reads
    self_params,      \* SpecShared: the instance's per-coin attributes (self.period, ...)
    invocations,      \* SpecShared: each thread's generate_signal call: coin, position, locals
    page_running, \* SpecPage: BacktestPage.running_backtest as the UI thread and the workers see it
    coin_vars,    \* SpecPage: the coins whose checkbox is ticked
    run_btn,      \* SpecPage: the run button's state and text
    status_label, \* SpecPage: the status label's text
    after_calls,  \* SpecPage: every self.parent.after(0, ...) made so far, in order
    processed,    \* SpecPage: how many of them the UI thread has run
    workers,      \* SpecPage: the worker threads started so far: position and coins
    last_exit,    \* SpecPage: how the last run_backtest call left
    sel_types,      \* SpecSelect: the dropdown value of each of two optimizer runs
    sel_tuples,     \* SpecSelect: the parameter tuple each run evaluates
    sel_evaluators, \* SpecSelect: the evaluator each run was dispatched to
    sel_rows,       \* SpecSelect: the row each evaluator returned (<<>> before)
    sel_records     \* SpecSelect: the record each run persisted (<<>> before)

evalVars == <<evaluator, signals, position_size, idx, position, trades,
              returned, stats, result, pc>>

rankVars == <<results, best_per_coin, regrouped, reordered, best_reordered,
              saved, save_error, rpc>>

sweepVars == <<signal_type, position_size_text, selected_coins,
               running_backtest, combinations, coin_i, combo_i, test_count, df,
               all_results, fetch_log, eval_log, scheduled, written,
               write_error, spc>>

liveVars == <<generator, store, live_coin, live_params, live_log,
              live_result, live_calls, lpc>>

levelVars == <<clustered_resistance, clustered_support, min_distance_percent,
               current_price, resistance_levels, support_levels,
               nearest_resistance, nearest_support, vpc>>

indVars == <<ind_strategy, close, ind_params, rsi_series, short_sma, long_sma,
             ind_signals, ind_i, ind_result, ipc>>

rateVars == <<now, last_request_time, callers, requests>>

rangeVars == <<range_df, range_params, in_range, range_signals, range_i,
               range_trades, range_result, gpc>>

bandVars == <<band_price, band_upper, band_lower, live_bb_position,
              backtest_bb_position>>

pivotVars == <<pivot_df, window, pivot_i, highs, lows, pivots>>

sharedVars == <<shared_generator, shared_store, self_params, invocations>>

pageVars == <<page_running, coin_vars, run_btn, status_label, after_calls,
              processed, workers, last_exit>>

selectVars == <<sel_types, sel_tuples, sel_evaluators, sel_rows, sel_records>>

vars == <<evalVars, rankVars, sweepVars, liveVars, levelVars, indVars,
          rateVars, rangeVars, bandVars, pivotVars, sharedVars, pageVars,
          selectVars>>

\* What each part of the model leaves alone.
outsideEval == <<rankVars, sweepVars, liveVars, levelVars, indVars,
                 rateVars, rangeVars, bandVars, pivotVars, sharedVars,
                 pageVars, selectVars>>
outsideRank == <<evalVars, sweepVars, liveVars, levelVars, indVars,
                 rateVars, rangeVars, bandVars, pivotVars, sharedVars,
                 pageVars, selectVars>>
outsideSweep == <<evalVars, rankVars, liveVars, levelVars, indVars,
                  rateVars, rangeVars, bandVars, pivotVars, sharedVars,
                  pageVars, selectVars>>
outsideLive == <<evalVars, rankVars, sweepVars, levelVars, indVars,
                 rateVars, rangeVars, bandVars, pivotVars, sharedVars,
                 pageVars, selectVars>>
outsideLevels == <<evalVars, rankVars, sweepVars, liveVars, indVars,
                   rateVars, rangeVars, bandVars, pivotVars, sharedVars,
                   pageVars, selectVars>>
outsideInd == <<evalVars, rankVars, sweepVars, liveVars, levelVars,
                rateVars, rangeVars, bandVars, pivotVars, sharedVars,
                pageVars, selectVars>>
outsideRate == <<evalVars, rankVars, sweepVars, liveVars, levelVars,
                 indVars, rangeVars, bandVars, pivotVars, sharedVars,
                 pageVars, selectVars>>
outsideRange == <<evalVars, rankVars, sweepVars, liveVars, levelVars,
                  indVars, rateVars, bandVars, pivotVars, sharedVars,
                  pageVars, selectVars>>
outsideBand == <<evalVars, rankVars, sweepVars, liveVars, levelVars,
                 indVars, rateVars, rangeVars, pivotVars, sharedVars,
                 pageVars, selectVars>>
outsidePivot == <<evalVars, rankVars, sweepVars, liveVars, levelVars,
                  indVars, rateVars, rangeVars, bandVars, sharedVars,
                  pageVars, selectVars>>
outsideShared == <<evalVars, rankVars, sweepVars, liveVars, levelVars,
                   indVars, rateVars, rangeVars, bandVars, pivotVars,
                   pageVars, selectVars>>
outsidePage == <<evalVars, rankVars, sweepVars, liveVars, levelVars,
                 indVars, rateVars, rangeVars, bandVars, pivotVars,
                 sharedVars, selectVars>>
outsideSelect == <<evalVars, rankVars, sweepVars, liveVars, levelVars,
                   indVars, rateVars, rangeVars, bandVars, pivotVars,
                   sharedVars, pageVars>>

-----------------------------------------------------------------------------
(* Bounds and input domains *)

MaxSignals == 4
MaxResults == 3

Actions == {"BUY", "SELL", "HOLD"}
\* Candle closes, which are positive.
Prices == {2, 3}
PositionSizes == {100, 250}
Evaluators == {"rsi", "sma", "range", "scalping", "macd", "bollinger"}
Coins == {"BTC", "ETH", "SOL"}
Periods == {10, 12}
Profits == {-5, 9}

-----------------------------------------------------------------------------
(* Exact rational arithmetic standing for Python float arithmetic *)

Abs(x) == IF x < 0 THEN -x ELSE x

RECURSIVE GCD(_, _)
GCD(a, b) == IF b = 0 THEN a ELSE GCD(b, a % b)

\* The rational n/d (d # 0) in lowest terms with a positive denominator.
Rat(n, d) ==
    LET g == GCD(Abs(n), Abs(d))
        s == IF d < 0 THEN -1 ELSE 1
    IN [n |-> (s * n) \div g, d |-> (s * d) \div g]

RatInt(i) == [n |-> i, d |-> 1]
RatAdd(x, y) == Rat(x.n * y.d + y.n * x.d, x.d * y.d)
RatMul(x, y) == Rat(x.n * y.n, x.d * y.d)
RatDiv(x, y) == Rat(x.n * y.d, x.d * y.n)

-----------------------------------------------------------------------------
(* simulate_trades *)

\* `signal['action'] == 'BUY' and position is None`
BuyAcceptedAlways(signal, pos) == signal.action = "BUY"
BuyAccepted(signal, pos) == signal.action = "BUY" /\ pos = <<>>

\* `elif signal['action'] == 'SELL' and position is not None`
SellAcceptedAnyAction(signal, pos) == ~BuyAccepted(signal, pos) /\ pos # <<>>
SellAccepted(signal, pos) ==
    ~BuyAccepted(signal, pos) /\ signal.action = "SELL" /\ pos # <<>>

\* The position dict built on an accepted BUY.
NewPosition(signal, size) ==
    [entry_time |-> signal.timestamp,
     entry_price |-> signal.price,
     size_usd |-> size]

\* pnl_pct = ((price - entry_price) / entry_price) * 100
PnlPctInverted(exit_price, entry_price) ==
    RatMul(RatDiv(RatInt(exit_price - entry_price), RatInt(exit_price)), RatInt(100))
PnlPct(exit_price, entry_price) ==
    RatMul(RatDiv(RatInt(exit_price - entry_price), RatInt(entry_price)), RatInt(100))

\* profit_usd = (pnl_pct / 100) * position['size_usd']
ProfitUsd(pnl_pct, size_usd) ==
    RatMul(RatDiv(pnl_pct, RatInt(100)), RatInt(size_usd))

\* The trade dict appended on an accepted SELL.
NewTrade(pos, signal) ==
    LET pnl == PnlPct(signal.price, pos.entry_price)
    IN [entry_time |-> pos.entry_time,
        entry_price |-> pos.entry_price,
        exit_time |-> signal.timestamp,
        exit_price |-> signal.price,
        pnl_pct |-> pnl,
        profit_usd |-> ProfitUsd(pnl, pos.size_usd)]

\* trades.append(...)
PrependTrade(ts, t) == <<t>> \o ts
AppendTrade(ts, t) == Append(ts, t)

\* The list `return trades` hands back once the loop is over.
MarkToMarketTrades(ts, pos, sigs) ==
    IF pos = <<>> THEN ts
    ELSE Append(ts, NewTrade(pos[1], sigs[Len(sigs)]))
ReturnedTrades(ts, pos, sigs) == ts


-----------------------------------------------------------------------------
(* calculate_trade_statistics *)

RECURSIVE SumProfit(_)
SumProfit(ts) ==
    IF ts = <<>> THEN RatInt(0)
    ELSE RatAdd(SumProfit(SubSeq(ts, 1, Len(ts) - 1)), ts[Len(ts)].profit_usd)

\* [t for t in trades if t['profit_usd'] > 0]
WinningTrades(ts) == SelectSeq(ts, LAMBDA t : t.profit_usd.n > 0)
\* [t for t in trades if t['profit_usd'] <= 0]
LosingTrades(ts) == SelectSeq(ts, LAMBDA t : t.profit_usd.n <= 0)

\* The dict of lines 63-77; the `if trades else 0` guards of lines 67-68 included.
StatsDict(ts) ==
    LET total_profit == SumProfit(ts)
    IN [total_trades |-> Len(ts),
        winning_trades |-> Len(WinningTrades(ts)),
        losing_trades |-> Len(LosingTrades(ts)),
        win_rate |-> IF ts # <<>>
                     THEN RatMul(Rat(Len(WinningTrades(ts)), Len(ts)), RatInt(100))
                     ELSE RatInt(0),
        total_profit_usd |-> total_profit,
        avg_profit |-> IF ts # <<>>
                       THEN RatDiv(total_profit, RatInt(Len(ts)))
                       ELSE RatInt(0)]

\* `if not trades: return None`, else the dict.
TradeStatisticsNoEarlyReturn(ts) == <<StatsDict(ts)>>
TradeStatistics(ts) == IF ts = <<>> THEN <<>> ELSE <<StatsDict(ts)>>

-----------------------------------------------------------------------------
(* The evaluators' tail: `if not stats: return None`, else the result row. *)
(* The row's coin and parameter fields are the call's arguments handed      *)
(* through; the six evaluators build the rest of the row alike.             *)

ResultRow(ev, sigs, st) ==
    [evaluator |-> ev,
     signals_generated |-> Len(sigs),
     total_trades |-> st.total_trades,
     winning_trades |-> st.winning_trades,
     losing_trades |-> st.losing_trades,
     win_rate |-> st.win_rate,
     total_profit_usd |-> st.total_profit_usd,
     avg_profit |-> st.avg_profit]

-----------------------------------------------------------------------------
(* One evaluation as a state machine *)

\* Signal lists: the i-th signal of a list carries timestamp i (candles are
\* time-ascending with no duplicate timestamps, and every evaluator appends
\* at most one signal per candle, in candle order).
SignalLists ==
    UNION {
        { [i \in 1..n |-> [action |-> f[i][1], price |-> f[i][2], timestamp |-> i]] :
            f \in [1..n -> Actions \X Prices] } :
        n \in 0..MaxSignals }

InitEval ==
    /\ evaluator \in Evaluators
    /\ signals \in SignalLists
    /\ position_size \in PositionSizes
    /\ idx = 1
    /\ position = <<>>
    /\ trades = <<>>
    /\ returned = <<>>
    /\ stats = <<>>
    /\ result = <<>>
    /\ pc = "scan"

RankIdle ==
    /\ results = <<>>
    /\ best_per_coin = <<>>
    /\ regrouped = <<>>
    /\ reordered = <<>>
    /\ best_reordered = <<>>
    /\ saved = <<>>
    /\ save_error = FALSE
    /\ rpc = "idle"

SweepIdle ==
    /\ signal_type = "RSI 1min"
    /\ position_size_text = "100"
    /\ selected_coins = <<>>
    /\ running_backtest = FALSE
    /\ combinations = <<>>
    /\ coin_i = 1
    /\ combo_i = 1
    /\ test_count = 0
    /\ df = <<>>
    /\ all_results = <<>>
    /\ fetch_log = <<>>
    /\ eval_log = <<>>
    /\ scheduled = <<>>
    /\ written = <<>>
    /\ write_error = FALSE
    /\ spc = "idle"

LiveIdle ==
    /\ generator = "support_resistance_1h"
    /\ store = <<>>
    /\ live_coin = ""
    /\ live_params = <<>>
    /\ live_log = <<>>
    /\ live_result = ""
    /\ live_calls = 0
    /\ lpc = "idle"

LevelsIdle ==
    /\ clustered_resistance = <<>>
    /\ clustered_support = <<>>
    /\ min_distance_percent = 20
    /\ current_price = 0
    /\ resistance_levels = <<>>
    /\ support_levels = <<>>
    /\ nearest_resistance = <<>>
    /\ nearest_support = <<>>
    /\ vpc = "idle"

IndIdle ==
    /\ ind_strategy = "rsi"
    /\ close = <<>>
    /\ ind_params = <<>>
    /\ rsi_series = <<>>
    /\ short_sma = <<>>
    /\ long_sma = <<>>
    /\ ind_signals = <<>>
    /\ ind_i = 0
    /\ ind_result = <<>>
    /\ ipc = "idle"

RateIdle ==
    /\ now = 0
    /\ last_request_time = <<>>
    /\ callers = <<>>
    /\ requests = <<>>

RangeIdle ==
    /\ range_df = <<>>
    /\ range_params = <<>>
    /\ in_range = FALSE
    /\ range_signals = <<>>
    /\ range_i = 0
    /\ range_trades = <<>>
    /\ range_result = <<>>
    /\ gpc = "idle"

BandIdle ==
    /\ band_price = 0
    /\ band_upper = 0
    /\ band_lower = 0
    /\ live_bb_position = <<>>
    /\ backtest_bb_position = <<>>

PivotIdle ==
    /\ pivot_df = <<>>
    /\ window = 0
    /\ pivot_i = 0
    /\ highs = <<>>
    /\ lows = <<>>
    /\ pivots = <<>>

SharedIdle ==
    /\ shared_generator = ""
    /\ shared_store = <<>>
    /\ self_params = <<>>
    /\ invocations = <<>>

PageIdle ==
    /\ page_running = FALSE
    /\ coin_vars = {}
    /\ run_btn = <<>>
    /\ status_label = ""
    /\ after_calls = <<>>
    /\ processed = 0
    /\ workers = <<>>
    /\ last_exit = ""

SelectIdle ==
    /\ sel_types = <<>>
    /\ sel_tuples = <<>>
    /\ sel_evaluators = <<>>
    /\ sel_rows = <<>>
    /\ sel_records = <<>>

Init ==
    /\ InitEval
    /\ RankIdle
    /\ SweepIdle
    /\ LiveIdle
    /\ LevelsIdle
    /\ IndIdle
    /\ RateIdle
    /\ RangeIdle
    /\ BandIdle
    /\ PivotIdle
    /\ SharedIdle
    /\ PageIdle
    /\ SelectIdle

\* for signal in signals: the BUY branch
OpenPosition ==
    /\ pc = "scan"
    /\ idx <= Len(signals)
    /\ BuyAccepted(signals[idx], position)
    /\ position' = <<NewPosition(signals[idx], position_size)>>
    /\ idx' = idx + 1
    /\ UNCHANGED <<evaluator, signals, position_size, trades, returned, stats,
                   result, pc>>
    /\ UNCHANGED outsideEval

\* for signal in signals: the SELL branch
ClosePosition ==
    /\ pc = "scan"
    /\ idx <= Len(signals)
    /\ SellAccepted(signals[idx], position)
    /\ trades' = AppendTrade(trades, NewTrade(position[1], signals[idx]))
    /\ position' = <<>>
    /\ idx' = idx + 1
    /\ UNCHANGED <<evaluator, signals, position_size, returned, stats, result, pc>>
    /\ UNCHANGED outsideEval

\* for signal in signals: neither branch taken
SkipSignal ==
    /\ pc = "scan"
    /\ idx <= Len(signals)
    /\ ~BuyAccepted(signals[idx], position)
    /\ ~SellAccepted(signals[idx], position)
    /\ idx' = idx + 1
    /\ UNCHANGED <<evaluator, signals, position_size, position, trades, returned,
                   stats, result, pc>>
    /\ UNCHANGED outsideEval

\* `return trades`
SimulateReturn ==
    /\ pc = "scan"
    /\ idx > Len(signals)
    /\ returned' = ReturnedTrades(trades, position, signals)
    /\ pc' = "stats"
    /\ UNCHANGED <<evaluator, signals, position_size, idx, position, trades,
                   stats, result>>
    /\ UNCHANGED outsideEval

\* stats = calculate_trade_statistics(trades)
CalculateTradeStatistics ==
    /\ pc = "stats"
    /\ stats' = TradeStatistics(returned)
    /\ pc' = "ret"
    /\ UNCHANGED <<evaluator, signals, position_size, idx, position, trades,
                   returned, result>>
    /\ UNCHANGED outsideEval

\* `if not stats: return None`
EvaluatorReturnNone ==
    /\ pc = "ret"
    /\ stats = <<>>
    /\ result' = <<>>
    /\ pc' = "done"
    /\ UNCHANGED <<evaluator, signals, position_size, idx, position, trades,
                   returned, stats>>
    /\ UNCHANGED outsideEval

\* `return {'coin': ..., 'signals_generated': len(signals), **stats}`
EvaluatorReturnRow ==
    /\ pc = "ret"
    /\ stats # <<>>
    /\ result' = <<ResultRow(evaluator, signals, stats[1])>>
    /\ pc' = "done"
    /\ UNCHANGED <<evaluator, signals, position_size, idx, position, trades,
                   returned, stats>>
    /\ UNCHANGED outsideEval

Next ==
    \/ OpenPosition
    \/ ClosePosition
    \/ SkipSignal
    \/ SimulateReturn
    \/ CalculateTradeStatistics
    \/ EvaluatorReturnNone
    \/ EvaluatorReturnRow

Spec == Init /\ [][Next]_vars

-----------------------------------------------------------------------------
(* Claims about simulate_trades and the evaluators' tail (checked under Spec) *)

Scanning == pc = "scan" /\ idx <= Len(signals)
Scanned == 1..(idx - 1)
SellsIn(S) == Cardinality({i \in S : signals[i].action = "SELL"})

\* C1: while the signal list is scanned, a position is opened only by a BUY
\* met with no position open and closed (one trade appended) only by a SELL
\* met with a position open; an open position is never replaced; a BUY while
\* open and a SELL while flat leave the position and the trade list as they
\* were and the scan goes on to the next signal.
C1_SinglePositionDiscipline ==
    [][Scanning =>
        LET s == signals[idx] IN
        /\ (position = <<>> /\ position' # <<>> => s.action = "BUY")
        /\ (position # <<>> /\ position' # position =>
                s.action = "SELL" /\ position' = <<>>)
        /\ (trades' # trades =>
                /\ s.action = "SELL" /\ position # <<>>
                /\ Len(trades') = Len(trades) + 1
                /\ SubSeq(trades', 1, Len(trades)) = trades)
        /\ (s.action = "BUY" /\ position = <<>> =>
                position' # <<>> /\ trades' = trades)
        /\ (s.action = "SELL" /\ position # <<>> =>
                position' = <<>> /\ Len(trades') = Len(trades) + 1)
        /\ (\/ s.action = "BUY" /\ position # <<>>
            \/ s.action = "SELL" /\ position = <<>>
            =>  /\ position' = position
                /\ trades' = trades
                /\ pc' = "scan"
                /\ idx' = idx + 1)
    ]_vars

\* A SELL was met while flat and, later, a BUY while a position was open.
C1_Witness ==
    /\ pc = "scan"
    /\ position # <<>>
    /\ trades = <<>>
    /\ \E j \in Scanned : j < position[1].entry_time /\ signals[j].action = "SELL"
    /\ \E i \in Scanned : i > position[1].entry_time /\ signals[i].action = "BUY"

\* C2: after every prefix of the signal list the trades emitted so far are at
\* most the SELL signals seen so far, and the returned list has at most as
\* many trades as the list has SELL signals.
C2_TradesAtMostSells ==
    /\ Len(trades) <= SellsIn(Scanned)
    /\ Len(returned) <= SellsIn(DOMAIN signals)

\* A run that returned a trade and ignored a SELL.
C2_Witness ==
    /\ pc = "done"
    /\ Len(returned) >= 1
    /\ Len(returned) < SellsIn(DOMAIN signals)

\* Trades ts lie in signal order: each opens at a BUY, closes at a later SELL,
\* and closes before the next one opens.
InSignalOrder(ts) ==
    /\ \A k \in DOMAIN ts :
        /\ ts[k].entry_time \in DOMAIN signals
        /\ ts[k].exit_time \in DOMAIN signals
        /\ signals[ts[k].entry_time].action = "BUY"
        /\ signals[ts[k].exit_time].action = "SELL"
        /\ ts[k].entry_time < ts[k].exit_time
    /\ \A k \in 1..(Len(ts) - 1) : ts[k].exit_time < ts[k + 1].entry_time

\* C3: the trade list, while it is built and as returned, is in signal order:
\* every trade's entry signal precedes its exit signal and trade k's exit
\* signal precedes trade k+1's entry signal.
C3_TradesInSignalOrder == InSignalOrder(trades) /\ InSignalOrder(returned)

\* A run that returned two trades.
C3_Witness == pc = "done" /\ Len(returned) >= 2

\* The first index after `from` whose signal has action a (0 if none).
FirstAfter(from, a) ==
    LET S == {i \in DOMAIN signals : i > from /\ signals[i].action = a}
    IN IF S = {} THEN 0 ELSE CHOOSE i \in S : \A j \in S : i <= j

\* C4: every trade enters at the first BUY since the previous close at that
\* BUY's price, exits at the first SELL after it at that SELL's price, and has
\* pnl_pct = (exit_price - entry_price) / entry_price * 100 and
\* profit_usd = pnl_pct / 100 * position_size.
C4_TradePricesAndProfit ==
    \A k \in DOMAIN trades :
        LET t == trades[k]
            prev == IF k = 1 THEN 0 ELSE trades[k - 1].exit_time
        IN  /\ t.entry_time = FirstAfter(prev, "BUY")
            /\ t.entry_price = signals[t.entry_time].price
            /\ t.exit_time = FirstAfter(t.entry_time, "SELL")
            /\ t.exit_price = signals[t.exit_time].price
            /\ t.pnl_pct = Rat((t.exit_price - t.entry_price) * 100, t.entry_price)
            /\ t.profit_usd = Rat(t.pnl_pct.n * position_size, t.pnl_pct.d * 100)

\* A returned trade that skipped a later BUY at another price, sold at a loss
\* whose percentage is no whole number.
C4_Witness ==
    /\ pc = "done"
    /\ \E k \in DOMAIN returned :
        /\ \E i \in DOMAIN signals :
            /\ returned[k].entry_time < i /\ i < returned[k].exit_time
            /\ signals[i].action = "BUY"
            /\ signals[i].price # returned[k].entry_price
        /\ returned[k].pnl_pct.d # 1
        /\ returned[k].profit_usd.n < 0

\* C5: a position still open when the scan ends adds nothing: the returned
\* list is the list of trades closed during the scan, none of them entered at
\* the open position's BUY, and the statistics count exactly those trades.
C5_OpenPositionDiscarded ==
    pc \in {"stats", "ret", "done"} /\ position # <<>> =>
        /\ returned = trades
        /\ \A k \in DOMAIN returned :
                returned[k].exit_time < position[1].entry_time
        /\ pc \in {"ret", "done"} =>
                IF trades = <<>> THEN stats = <<>>
                ELSE /\ stats # <<>>
                     /\ stats[1].total_trades = Len(trades)
                     /\ stats[1].total_profit_usd = SumProfit(trades)
        /\ pc = "done" /\ trades = <<>> => result = <<>>

\* A finished evaluation that returned a row and left a position open.
C5_Witness == pc = "done" /\ position # <<>> /\ result # <<>>

\* C6: an evaluation in which the simulator closed no trade returns None, and
\* no returned row has total_trades = 0, whichever evaluator ran.
C6_NoTradesNoResult ==
    pc = "done" =>
        /\ (trades = <<>> => result = <<>>)
        /\ (result # <<>> => result[1].total_trades > 0)

\* A finished evaluation with signals generated, no trade closed, None returned.
C6_Witness ==
    /\ pc = "done"
    /\ signals # <<>>
    /\ trades = <<>>
    /\ result = <<>>

-----------------------------------------------------------------------------
(* Result rows as the ranking and saving code reads them.  total_profit_usd *)
(* is a whole number of dollars here; `period` tells parameter tuples apart *)
(* and the remaining fields ride along.                                     *)

Row(c, p, profit) ==
    [coin |-> c,
     period |-> p,
     oversold |-> 30,
     overbought |-> 70,
     signals_generated |-> 2,
     total_trades |-> 1,
     winning_trades |-> IF profit > 0 THEN 1 ELSE 0,
     losing_trades |-> IF profit > 0 THEN 0 ELSE 1,
     win_rate |-> IF profit > 0 THEN 100 ELSE 0,
     total_profit_usd |-> profit,
     avg_profit |-> profit]

Rows == {Row(c, p, profit) : c \in Coins, p \in Periods, profit \in Profits}

ResultLists == UNION {[1..n -> Rows] : n \in 0..MaxResults}

-----------------------------------------------------------------------------
(* group_best_results_by_coin *)

\* A dict keyed by coin is the sequence of its values in insertion order.
HasCoin(d, c) == \E k \in DOMAIN d : d[k].coin = c
CoinIndex(d, c) == CHOOSE k \in DOMAIN d : d[k].coin = c

\* `coin not in coins_best or result[...] > coins_best[coin][...]`
ReplacesBestOnTie(d, r) ==
    \/ ~HasCoin(d, r.coin)
    \/ r.total_profit_usd >= d[CoinIndex(d, r.coin)].total_profit_usd
ReplacesBest(d, r) ==
    \/ ~HasCoin(d, r.coin)
    \/ r.total_profit_usd > d[CoinIndex(d, r.coin)].total_profit_usd

\* coins_best[coin] = result: a new key goes last, a present key keeps its place.
DictSet(d, r) ==
    IF HasCoin(d, r.coin)
    THEN [d EXCEPT ![CoinIndex(d, r.coin)] = r]
    ELSE Append(d, r)

\* The loop of lines 86-89 over the first n results.
RECURSIVE CoinsBest(_, _)
CoinsBest(rs, n) ==
    IF n = 0 THEN <<>>
    ELSE LET d == CoinsBest(rs, n - 1)
         IN IF ReplacesBest(d, rs[n]) THEN DictSet(d, rs[n]) ELSE d

\* list.sort(key=total_profit_usd, reverse=True): a stable sort, so rows of
\* equal profit keep their order.  r goes behind every row of profit >= its own.
InsertDesc(sorted, r) ==
    LET ahead == Cardinality({k \in DOMAIN sorted :
                        sorted[k].total_profit_usd >= r.total_profit_usd})
    IN SubSeq(sorted, 1, ahead) \o <<r>> \o SubSeq(sorted, ahead + 1, Len(sorted))

RECURSIVE SortPrefix(_, _)
SortPrefix(rs, n) ==
    IF n = 0 THEN <<>> ELSE InsertDesc(SortPrefix(rs, n - 1), rs[n])

Reverse(rs) == [k \in 1..Len(rs) |-> rs[Len(rs) + 1 - k]]

\* An ascending stable sort followed by a reversal: ties come out reversed.
InsertAsc(sorted, r) ==
    LET ahead == Cardinality({k \in DOMAIN sorted :
                        sorted[k].total_profit_usd <= r.total_profit_usd})
    IN SubSeq(sorted, 1, ahead) \o <<r>> \o SubSeq(sorted, ahead + 1, Len(sorted))

RECURSIVE SortAscPrefix(_, _)
SortAscPrefix(rs, n) ==
    IF n = 0 THEN <<>> ELSE InsertAsc(SortAscPrefix(rs, n - 1), rs[n])

SortAscThenReverse(rs) == Reverse(SortAscPrefix(rs, Len(rs)))
Unsorted(rs) == rs
SortByProfitDesc(rs) == SortPrefix(rs, Len(rs))

GroupBestResultsByCoin(rs) == SortByProfitDesc(CoinsBest(rs, Len(rs)))

-----------------------------------------------------------------------------
(* save_best_results *)

\* Lines 28-32: the first row of each coin, in first-seen order.
RECURSIVE FirstPerCoin(_, _)
FirstPerCoin(rs, n) ==
    IF n = 0 THEN <<>>
    ELSE LET d == FirstPerCoin(rs, n - 1)
         IN IF ~HasCoin(d, rs[n].coin) THEN Append(d, rs[n]) ELSE d

\* Lines 39-60: the record written for one coin.
SaveData(best_result, signal_name, timerange, size) ==
    [coin |-> best_result.coin,
     signal |-> signal_name,
     timerange |-> timerange,
     position_size_usd |-> size,
     best_parameters |->
        [period |-> best_result.period,
         oversold |-> best_result.oversold,
         overbought |-> best_result.overbought],
     performance |->
        [total_profit_usd |-> best_result.total_profit_usd,
         total_trades |-> best_result.total_trades,
         winning_trades |-> best_result.winning_trades,
         losing_trades |-> best_result.losing_trades,
         win_rate |-> best_result.win_rate,
         avg_profit |-> best_result.avg_profit,
         signals_generated |-> best_result.signals_generated]]

\* The records written when the write numbered fail_at raises (0: none does):
\* the except clause of lines 69-72 ends the loop at the first failure.
SaveBestResults(rs, signal_name, timerange, size, fail_at) ==
    LET best == FirstPerCoin(rs, Len(rs))
        n == IF fail_at = 0 THEN Len(best) ELSE fail_at - 1
    IN [k \in 1..n |-> SaveData(best[k], signal_name, timerange, size)]

-----------------------------------------------------------------------------
(* Ranking and saving applied to a given list of rows *)

EvalIdle ==
    /\ evaluator = "rsi"
    /\ signals = <<>>
    /\ position_size = 100
    /\ idx = 1
    /\ position = <<>>
    /\ trades = <<>>
    /\ returned = <<>>
    /\ stats = <<>>
    /\ result = <<>>
    /\ pc = "idle"

InitRank ==
    /\ EvalIdle
    /\ SweepIdle
    /\ LiveIdle
    /\ LevelsIdle
    /\ IndIdle
    /\ RateIdle
    /\ RangeIdle
    /\ BandIdle
    /\ PivotIdle
    /\ SharedIdle
    /\ PageIdle
    /\ SelectIdle
    /\ results \in ResultLists
    /\ best_per_coin = <<>>
    /\ regrouped = <<>>
    /\ reordered = <<>>
    /\ best_reordered = <<>>
    /\ saved = <<>>
    /\ save_error = FALSE
    /\ rpc = "given"

\* best_per_coin = group_best_results_by_coin(results)
GroupResults ==
    /\ rpc = "given"
    /\ best_per_coin' = GroupBestResultsByCoin(results)
    /\ rpc' = "grouped"
    /\ UNCHANGED <<results, regrouped, reordered, best_reordered, saved, save_error>>
    /\ UNCHANGED outsideRank

\* group_best_results_by_coin applied to its own output
RegroupResults ==
    /\ rpc = "grouped"
    /\ regrouped' = GroupBestResultsByCoin(best_per_coin)
    /\ rpc' = "regrouped"
    /\ UNCHANGED <<results, best_per_coin, reordered, best_reordered, saved,
                   save_error>>
    /\ UNCHANGED outsideRank

\* group_best_results_by_coin applied to another ordering of the same rows
GroupReordered ==
    /\ rpc = "regrouped"
    /\ \E p \in Permutations(DOMAIN results) :
        /\ reordered' = [k \in DOMAIN results |-> results[p[k]]]
        /\ best_reordered' = GroupBestResultsByCoin(reordered')
    /\ rpc' = "compared"
    /\ UNCHANGED <<results, best_per_coin, regrouped, saved, save_error>>
    /\ UNCHANGED outsideRank

\* save_best_results(results, ...); any one of its writes may raise
SaveResults ==
    /\ rpc = "regrouped"
    /\ \E fail_at \in 0..Len(FirstPerCoin(results, Len(results))) :
        /\ saved' = SaveBestResults(results, "rsi-1min", "24 Hours", 100, fail_at)
        /\ save_error' = (fail_at # 0)
    /\ rpc' = "saved"
    /\ UNCHANGED <<results, best_per_coin, regrouped, reordered, best_reordered>>
    /\ UNCHANGED outsideRank

NextRank ==
    \/ GroupResults
    \/ RegroupResults
    \/ GroupReordered
    \/ SaveResults

SpecRank == InitRank /\ [][NextRank]_vars

-----------------------------------------------------------------------------
(* Claims about ranking and saving (checked under SpecRank) *)

CoinsOf(rs) == {rs[k].coin : k \in DOMAIN rs}
RowsOfCoin(rs, c) == {k \in DOMAIN rs : rs[k].coin = c}
MaxProfit(rs, c) ==
    LET P == {rs[k].total_profit_usd : k \in RowsOfCoin(rs, c)}
    IN CHOOSE m \in P : \A q \in P : q <= m
\* The first row of coin c in rs that has the coin's maximum profit.
FirstBest(rs, c) ==
    LET B == {k \in RowsOfCoin(rs, c) : rs[k].total_profit_usd = MaxProfit(rs, c)}
    IN rs[CHOOSE k \in B : \A j \in B : k <= j]
Descending(rs) ==
    \A k \in 1..(Len(rs) - 1) : rs[k].total_profit_usd >= rs[k + 1].total_profit_usd
ProfitsOf(rs) == [k \in DOMAIN rs |-> rs[k].total_profit_usd]

\* C7: group_best_results_by_coin returns one row per coin of its input, that
\* row is the coin's first-seen row of maximum total_profit_usd, and the rows
\* come in descending order of total_profit_usd.
C7_BestPerCoinRanked ==
    rpc # "given" =>
        /\ Len(best_per_coin) = Cardinality(CoinsOf(results))
        /\ CoinsOf(best_per_coin) = CoinsOf(results)
        /\ \A k \in DOMAIN best_per_coin :
                best_per_coin[k] = FirstBest(results, best_per_coin[k].coin)
        /\ Descending(best_per_coin)

\* A grouped list whose input was not in descending order, held two coins of
\* different best profit, and two different rows tied for one coin's best.
C7_Witness ==
    /\ rpc = "grouped"
    /\ ~Descending(results)
    /\ \E k \in DOMAIN best_per_coin :
            best_per_coin[k].total_profit_usd # best_per_coin[1].total_profit_usd
    /\ \E i, j \in DOMAIN results :
        /\ i < j
        /\ results[i] # results[j]
        /\ results[i].coin = results[j].coin
        /\ results[i].total_profit_usd = results[j].total_profit_usd
        /\ results[i].total_profit_usd = MaxProfit(results, results[i].coin)

\* C8: group_best_results_by_coin applied to its own output returns that
\* output: the same rows in the same order.
C8_GroupIdempotent ==
    rpc \in {"regrouped", "compared", "saved"} => regrouped = best_per_coin

\* A regrouped list of two coins tied on profit whose input was another list.
C8_Witness ==
    /\ rpc = "regrouped"
    /\ results # best_per_coin
    /\ \E k \in 1..(Len(best_per_coin) - 1) :
            best_per_coin[k].total_profit_usd = best_per_coin[k + 1].total_profit_usd

\* The rows of rs that have their coin's maximum profit.
BestRows(rs) ==
    {rs[k] : k \in {j \in DOMAIN rs :
                        rs[j].total_profit_usd = MaxProfit(rs, rs[j].coin)}}
\* No two different best rows have the same profit.
BestRowsUntied(rs) ==
    \A r1, r2 \in BestRows(rs) :
        r1.total_profit_usd = r2.total_profit_usd => r1 = r2

\* C9 as claimed: any two orderings of the same rows are ranked into the
\* same list.
C9_OrderIndependent ==
    rpc = "compared" => best_reordered = best_per_coin

\* C9 as amended: any two orderings of the same rows are ranked into lists
\* with the same coins, the same best profit per coin and the same descending
\* sequence of profits; the lists are the same whenever no two different rows
\* that are best for their coin tie on total_profit_usd.
C9_OrderIndependentUpToTies ==
    rpc = "compared" =>
        /\ CoinsOf(best_reordered) = CoinsOf(best_per_coin)
        /\ \A c \in CoinsOf(best_per_coin) :
                MaxProfit(best_reordered, c) = MaxProfit(best_per_coin, c)
        /\ ProfitsOf(best_reordered) = ProfitsOf(best_per_coin)
        /\ BestRowsUntied(results) => best_reordered = best_per_coin

\* Two different orderings, free of ties among best rows, of rows of two coins
\* one of which has a row that is not its best.
C9_Witness ==
    /\ rpc = "compared"
    /\ reordered # results
    /\ BestRowsUntied(results)
    /\ Len(best_per_coin) >= 2
    /\ Len(results) > Len(best_per_coin)

\* C10 as claimed: when no write fails, save_best_results writes one record
\* per coin of the list it is given, carrying the parameters and performance
\* of a row of that coin with maximum total_profit_usd.
C10_SavesBestPerCoin ==
    rpc = "saved" /\ ~save_error =>
        /\ Len(saved) = Cardinality(CoinsOf(results))
        /\ {saved[k].coin : k \in DOMAIN saved} = CoinsOf(results)
        /\ \A k \in DOMAIN saved :
            \E r \in BestRows(results) :
                /\ r.coin = saved[k].coin
                /\ saved[k].best_parameters.period = r.period
                /\ saved[k].best_parameters.oversold = r.oversold
                /\ saved[k].best_parameters.overbought = r.overbought
                /\ saved[k].performance.total_profit_usd = r.total_profit_usd
                /\ saved[k].performance.total_trades = r.total_trades
                /\ saved[k].performance.win_rate = r.win_rate

-----------------------------------------------------------------------------
(* The optimization sweep: _execute_optimization and _run_all_tests *)

\* The signal types whose optimization ranges the configuration lists.
SignalTypes ==
    {"RSI 1min", "RSI 5min", "RSI 1h", "RSI 4h", "SMA 5min", "Range 24h Low",
     "Range 7days Low", "Scalping 1min", "MACD 15min"}

RangeSignals == {"Range 24h Low", "Range 7days Low"}

\* self.coins, in the order of coin_vars.
MonitoredCoins == <<"BTC", "ETH">>

\* self.optimization_ranges as _on_signal_changed loads it for a signal type:
\* each configured range is a short list.  The offsets, tolerances and volume
\* multipliers, which have one decimal, are written in tenths.
OptimizationRanges(st) ==
    IF st = "SMA 5min"
        THEN [short_period |-> <<5, 8>>, long_period |-> <<20, 25>>]
    ELSE IF st \in RangeSignals
        THEN [long_offset |-> <<-20, -10>>, tolerance |-> <<10>>]
    ELSE IF st = "Scalping 1min"
        THEN [fast_ema |-> <<3, 5>>, slow_ema |-> <<10>>, rsi_period |-> <<5>>,
              rsi_oversold |-> <<25>>, rsi_overbought |-> <<65>>,
              volume_multiplier |-> <<15>>]
    ELSE IF st = "MACD 15min"
        THEN [fast |-> <<8>>, slow |-> <<20, 23>>, signal |-> <<7>>]
    ELSE [period |-> <<10, 12>>, oversold |-> <<30>>, overbought |-> <<70>>]

\* optimization_ranges.get(key, default)
RangeOr(ranges, key, default) ==
    IF key \in DOMAIN ranges THEN ranges[key] ELSE default

\* itertools.product of the first n lists: the last list varies fastest.
RECURSIVE ProductOf(_, _)
ProductOf(lists, n) ==
    IF n = 0 THEN << <<>> >>
    ELSE LET prev == ProductOf(lists, n - 1)
             last == lists[n]
         IN [k \in 1..(Len(prev) * Len(last)) |->
                Append(prev[((k - 1) \div Len(last)) + 1],
                       last[((k - 1) % Len(last)) + 1])]

Product(lists) == ProductOf(lists, Len(lists))

\* _generate_combinations under the optimization ranges r: the lists whose
\* product is taken
RangesOf(st, r) ==
       IF st = "SMA 5min"
           THEN <<RangeOr(r, "short_period", <<5, 8, 10, 12, 15>>),
                  RangeOr(r, "long_period", <<20, 25, 30, 35, 40>>)>>
       ELSE IF st \in RangeSignals
           THEN <<RangeOr(r, "long_offset", <<-20, -15, -10, -5, 0>>),
                  RangeOr(r, "tolerance", <<10, 15, 20, 25, 30>>)>>
       ELSE IF st = "Scalping 1min"
           THEN <<RangeOr(r, "fast_ema", <<3, 5, 8>>),
                  RangeOr(r, "slow_ema", <<10, 13, 15, 20>>),
                  RangeOr(r, "rsi_period", <<5, 7, 9>>),
                  RangeOr(r, "rsi_oversold", <<25, 30, 35>>),
                  RangeOr(r, "rsi_overbought", <<65, 70, 75>>),
                  RangeOr(r, "volume_multiplier", <<13, 15, 18, 20>>)>>
       ELSE IF st = "MACD 15min"
           THEN <<RangeOr(r, "fast", <<8, 10, 12, 14, 16>>),
                  RangeOr(r, "slow", <<20, 23, 26, 29, 32>>),
                  RangeOr(r, "signal", <<7, 8, 9, 10, 11>>)>>
       ELSE <<RangeOr(r, "period", <<10, 12, 14, 16, 18, 20>>),
              RangeOr(r, "oversold", <<25, 28, 30, 32, 35>>),
              RangeOr(r, "overbought", <<65, 68, 70, 72, 75>>)>>

\* The lists under the configured ranges of the signal type
StrategyRanges(st) == RangesOf(st, OptimizationRanges(st))

\* _generate_combinations
GenerateCombinations(st) == Product(StrategyRanges(st))

SeqMax(s) == CHOOSE m \in {s[k] : k \in DOMAIN s} : \A k \in DOMAIN s : s[k] <= m

\* _get_min_data_length
MinDataLengthNone(st) == 0
MinDataLength(st) ==
    LET r == OptimizationRanges(st)
    IN IF st = "SMA 5min" THEN SeqMax(RangeOr(r, "long_period", <<40>>))
       ELSE IF st \in RangeSignals THEN 50
       ELSE SeqMax(RangeOr(r, "period", <<20>>))

\* `df is None or len(df) < self._get_min_data_length(signal_type)`
CoinSkipped(d, st) == IF d = <<>> THEN TRUE ELSE d[1] < MinDataLength(st)

\* _get_signal_filename
SignalFilename(st) ==
    CASE st = "RSI 1min" -> "rsi-1min"
      [] st = "RSI 5min" -> "rsi-5min"
      [] st = "RSI 1h" -> "rsi-1h"
      [] st = "RSI 4h" -> "rsi-4h"
      [] st = "SMA 5min" -> "sma-5min"
      [] st = "Range 24h Low" -> "range-24h-low"
      [] st = "Range 7days Low" -> "range-7days-low"
      [] st = "Scalping 1min" -> "scalping-1min"
      [] st = "MACD 15min" -> "macd-15min"
      [] OTHER -> "rsi-1min"

\* The row an evaluator returns for a tuple: every run_*_backtest stores its
\* first three arguments under period, oversold and overbought, and the
\* crossover and range evaluators store 0 under overbought.
StrategyRow(st, coin, combo, profit) ==
    [Row(coin, combo[1], profit) EXCEPT
        !.oversold = combo[2],
        !.overbought = IF st = "SMA 5min" \/ st \in RangeSignals
                       THEN 0 ELSE combo[3]]

\* float(self.position_size_var.get()): <<>> when the text is no number
ParseFloat(text) == IF text = "100" THEN <<100>> ELSE <<>>
PositionSizeTexts == {"100", "abc"}

\* What fetch_historical_data returns: None after an error, or a series.
SeriesLengths == {10, 22, 60}
FetchOutcomes == {<<>>} \cup {<<n>> : n \in SeriesLengths}

\* How one evaluator call ends: an exception caught inside the evaluator,
\* no trade, or a row with some profit.
SweepProfits == {9}
EvalOutcomes ==
    {[kind |-> "error", profit |-> 0], [kind |-> "no_trades", profit |-> 0]}
        \cup {[kind |-> "row", profit |-> p] : p \in SweepProfits}

\* The value _run_strategy_backtest returns (<<>> is None).
StrategyResult(st, coin, combo, outcome) ==
    IF outcome.kind = "row"
    THEN <<StrategyRow(st, coin, combo, outcome.profit)>>
    ELSE <<>>

\* A callback handed to parent.after(0, ...).
Callback(cb, text, coin, tc, tt, rows) ==
    [cb |-> cb, text |-> text, coin |-> coin, tc |-> tc, tt |-> tt,
     rows |-> rows]
StatusCallback(text) == Callback("status", text, "", 0, 0, <<>>)

CompletedText == "Optimization completed - Results saved to /results"

\* Whether an exception inside save_best_results reaches its caller: the
\* except clause of the function catches every Exception.
SaveRaisesOnError(error) == error
SaveRaises(error) == FALSE

\* What save_best_results returns: it has no return statement.
SaveReturnValue(error) == <<>>

\* Whether an exception inside an evaluator reaches _run_all_tests: every
\* run_*_backtest catches Exception and returns None.
EvaluatorRaisesOnError(outcome) == outcome.kind = "error"
EvaluatorRaises(outcome) == FALSE

\* `if result: all_results.append(result)`
CollectTwice(rs, res) == rs \o res \o res
Collect(rs, res) == rs \o res

\* selected_coins: the ticked coins, in the order of coin_vars; run_backtest
\* starts no thread for an empty selection.
Selections ==
    {<<MonitoredCoins[1]>>, <<MonitoredCoins[2]>>, MonitoredCoins}

InitSweep ==
    /\ EvalIdle
    /\ RankIdle
    /\ LiveIdle
    /\ LevelsIdle
    /\ IndIdle
    /\ RateIdle
    /\ RangeIdle
    /\ BandIdle
    /\ PivotIdle
    /\ SharedIdle
    /\ PageIdle
    /\ SelectIdle
    /\ signal_type \in SignalTypes
    /\ position_size_text \in PositionSizeTexts
    /\ selected_coins \in Selections
    /\ running_backtest = TRUE
    /\ combinations = <<>>
    /\ coin_i = 1
    /\ combo_i = 1
    /\ test_count = 0
    /\ df = <<>>
    /\ all_results = <<>>
    /\ fetch_log = <<>>
    /\ eval_log = <<>>
    /\ scheduled = <<>>
    /\ written = <<>>
    /\ write_error = FALSE
    /\ spc = "start"

\* _execute_optimization, lines 364-367: float() raises on a bad entry
ReadParameters ==
    /\ spc = "start"
    /\ spc' = IF ParseFloat(position_size_text) = <<>> THEN "except" ELSE "tests"
    /\ UNCHANGED <<signal_type, position_size_text, selected_coins,
                   running_backtest, combinations, coin_i, combo_i, test_count,
                   df, all_results, fetch_log, eval_log, scheduled, written,
                   write_error>>
    /\ UNCHANGED outsideSweep

\* _run_all_tests, lines 402-405
BeginTests ==
    /\ spc = "tests"
    /\ all_results' = <<>>
    /\ combinations' = GenerateCombinations(signal_type)
    /\ test_count' = 0
    /\ coin_i' = 1
    /\ spc' = "coin"
    /\ UNCHANGED <<signal_type, position_size_text, selected_coins,
                   running_backtest, combo_i, df, fetch_log, eval_log,
                   scheduled, written, write_error>>
    /\ UNCHANGED outsideSweep

\* for coin in selected_coins: the status callback and the fetch
FetchCoin ==
    /\ spc = "coin"
    /\ coin_i <= Len(selected_coins)
    /\ scheduled' = Append(scheduled,
            Callback("status", "Fetching data", selected_coins[coin_i], 0, 0, <<>>))
    /\ \E d \in FetchOutcomes : df' = d
    /\ fetch_log' = Append(fetch_log, [coin |-> selected_coins[coin_i], df |-> df'])
    /\ spc' = "check"
    /\ UNCHANGED <<signal_type, position_size_text, selected_coins,
                   running_backtest, combinations, coin_i, combo_i, test_count,
                   all_results, eval_log, written, write_error>>
    /\ UNCHANGED outsideSweep

\* `if df is None or len(df) < ...: continue`
SkipCoin ==
    /\ spc = "check"
    /\ CoinSkipped(df, signal_type)
    /\ coin_i' = coin_i + 1
    /\ spc' = "coin"
    /\ UNCHANGED <<signal_type, position_size_text, selected_coins,
                   running_backtest, combinations, combo_i, test_count, df,
                   all_results, fetch_log, eval_log, scheduled, written,
                   write_error>>
    /\ UNCHANGED outsideSweep

\* The coin has enough candles: the inner loop starts.
TestCoin ==
    /\ spc = "check"
    /\ ~CoinSkipped(df, signal_type)
    /\ combo_i' = 1
    /\ spc' = "combo"
    /\ UNCHANGED <<signal_type, position_size_text, selected_coins,
                   running_backtest, combinations, coin_i, test_count, df,
                   all_results, fetch_log, eval_log, scheduled, written,
                   write_error>>
    /\ UNCHANGED outsideSweep

\* for combo in combinations: lines 418-424
EvaluateCombo ==
    /\ spc = "combo"
    /\ combo_i <= Len(combinations)
    /\ test_count' = test_count + 1
    /\ scheduled' = Append(scheduled,
            Callback("status", "Testing configurations", "", test_count',
                     Len(selected_coins) * Len(combinations), <<>>))
    /\ \E outcome \in EvalOutcomes :
        LET res == StrategyResult(signal_type, selected_coins[coin_i],
                                  combinations[combo_i], outcome)
        IN /\ eval_log' = Append(eval_log,
                    [coin |-> selected_coins[coin_i],
                     combo |-> combinations[combo_i],
                     kind |-> outcome.kind,
                     result |-> res])
           /\ all_results' = Collect(all_results, res)
           /\ spc' = IF EvaluatorRaises(outcome) THEN "except" ELSE "combo"
    /\ combo_i' = combo_i + 1
    /\ UNCHANGED <<signal_type, position_size_text, selected_coins,
                   running_backtest, combinations, coin_i, df, fetch_log,
                   written, write_error>>
    /\ UNCHANGED outsideSweep

\* The inner loop is exhausted: on to the next coin.
NextCoin ==
    /\ spc = "combo"
    /\ combo_i > Len(combinations)
    /\ coin_i' = coin_i + 1
    /\ spc' = "coin"
    /\ UNCHANGED <<signal_type, position_size_text, selected_coins,
                   running_backtest, combinations, combo_i, test_count, df,
                   all_results, fetch_log, eval_log, scheduled, written,
                   write_error>>
    /\ UNCHANGED outsideSweep

\* `return all_results`
ReturnAllResults ==
    /\ spc = "coin"
    /\ coin_i > Len(selected_coins)
    /\ spc' = "returned"
    /\ UNCHANGED <<signal_type, position_size_text, selected_coins,
                   running_backtest, combinations, coin_i, combo_i, test_count,
                   df, all_results, fetch_log, eval_log, scheduled, written,
                   write_error>>
    /\ UNCHANGED outsideSweep

\* all_results.sort(key=total_profit_usd, reverse=True)
SortAllResults ==
    /\ spc = "returned"
    /\ all_results' = SortByProfitDesc(all_results)
    /\ spc' = "save"
    /\ UNCHANGED <<signal_type, position_size_text, selected_coins,
                   running_backtest, combinations, coin_i, combo_i, test_count,
                   df, fetch_log, eval_log, scheduled, written, write_error>>
    /\ UNCHANGED outsideSweep

\* The places where save_best_results can raise: one per record to write, and
\* os.makedirs, after which nothing is written either.
FailurePoints(rs) ==
    LET n == Len(FirstPerCoin(rs, Len(rs))) IN IF n = 0 THEN 1 ELSE n

\* save_best_results(all_results, signal_name, timerange_name, position_size):
\* creating the directory or any one write may raise
SaveBest ==
    /\ spc = "save"
    /\ \E fail_at \in 0..FailurePoints(all_results) :
        /\ written' = SaveBestResults(all_results, SignalFilename(signal_type),
                            "24 Hours", ParseFloat(position_size_text)[1],
                            fail_at)
        /\ write_error' = (fail_at # 0)
    /\ spc' = IF SaveRaises(write_error') THEN "except" ELSE "display"
    /\ UNCHANGED <<signal_type, position_size_text, selected_coins,
                   running_backtest, combinations, coin_i, combo_i, test_count,
                   df, all_results, fetch_log, eval_log, scheduled>>
    /\ UNCHANGED outsideSweep

\* Lines 382-385: the display and the closing status are scheduled
ScheduleDisplay ==
    /\ spc = "display"
    /\ scheduled' = scheduled \o
            <<Callback("display", "", "", 0, 0, all_results),
              StatusCallback(CompletedText)>>
    /\ spc' = "finally"
    /\ UNCHANGED <<signal_type, position_size_text, selected_coins,
                   running_backtest, combinations, coin_i, combo_i, test_count,
                   df, all_results, fetch_log, eval_log, written, write_error>>
    /\ UNCHANGED outsideSweep

\* except Exception: the error status is scheduled
HandleError ==
    /\ spc = "except"
    /\ scheduled' = Append(scheduled, StatusCallback("Error"))
    /\ spc' = "finally"
    /\ UNCHANGED <<signal_type, position_size_text, selected_coins,
                   running_backtest, combinations, coin_i, combo_i, test_count,
                   df, all_results, fetch_log, eval_log, written, write_error>>
    /\ UNCHANGED outsideSweep

\* finally: the running flag is reset and the button re-enabled
Finally ==
    /\ spc = "finally"
    /\ running_backtest' = FALSE
    /\ scheduled' = Append(scheduled, Callback("run_btn", "RUN OPTIMIZATION", "", 0, 0, <<>>))
    /\ spc' = "done"
    /\ UNCHANGED <<signal_type, position_size_text, selected_coins,
                   combinations, coin_i, combo_i, test_count, df, all_results,
                   fetch_log, eval_log, written, write_error>>
    /\ UNCHANGED outsideSweep

NextSweep ==
    \/ ReadParameters
    \/ BeginTests
    \/ FetchCoin
    \/ SkipCoin
    \/ TestCoin
    \/ EvaluateCombo
    \/ NextCoin
    \/ ReturnAllResults
    \/ SortAllResults
    \/ SaveBest
    \/ ScheduleDisplay
    \/ HandleError
    \/ Finally

SpecSweep == InitSweep /\ [][NextSweep]_vars

-----------------------------------------------------------------------------
(* Claims about the sweep (checked under SpecSweep) *)

Displayed(rows) ==
    \E k \in DOMAIN scheduled :
        scheduled[k].cb = "display" /\ scheduled[k].rows = rows

StatusScheduled(text) ==
    \E k \in DOMAIN scheduled :
        scheduled[k].cb = "status" /\ scheduled[k].text = text

\* C11: a failure while writing the persisted records never aborts the run:
\* save_best_results returns without raising, so once a write has failed the
\* worker is at the display step or beyond and never in the except clause,
\* the rows are handed to the display step, and when the worker has finished
\* the running flag is reset and the button re-enabled.
C11_SaveFailureDoesNotAbort ==
    write_error =>
        /\ spc \in {"display", "finally", "done"}
        /\ spc \in {"finally", "done"} =>
                Displayed(all_results) /\ ~StatusScheduled("Error")
        /\ spc = "done" =>
                /\ ~running_backtest
                /\ scheduled[Len(scheduled)].cb = "run_btn"

\* A finished run whose second write failed after the first record was written.
C11_Witness ==
    /\ spc = "done"
    /\ write_error
    /\ Len(written) = 1
    /\ Len(FirstPerCoin(all_results, Len(all_results))) = 2
    /\ Displayed(all_results)
    /\ ~running_backtest

\* What the caller of the sweep gets to know about the save step: the value
\* save_best_results returned and the closing status text.
SaveReport ==
    [returned |-> SaveReturnValue(write_error),
     status |-> {scheduled[k].text : k \in {j \in DOMAIN scheduled :
                    scheduled[j].cb = "status"
                    /\ scheduled[j].text \in {CompletedText, "Error"}}}]

SuccessReport == [returned |-> <<>>, status |-> {CompletedText}]

\* C12: when a persistence write fails the caller is informed that the save
\* step had only partial success: what is reported after a run whose save
\* failed differs from what is reported after a fully successful save.
C12_SaveFailureReported ==
    (spc = "done" /\ write_error) => SaveReport # SuccessReport

\* The selected coins are distinct: they are the keys of coin_vars.
Elems(s) == {s[k] : k \in DOMAIN s}

\* The Cartesian product of the first n lists, as a set of tuples.
RECURSIVE TupleSet(_, _)
TupleSet(lists, n) ==
    IF n = 0 THEN {<<>>}
    ELSE {Append(t, v) : t \in TupleSet(lists, n - 1), v \in Elems(lists[n])}

CartesianProduct(st) == TupleSet(StrategyRanges(st), Len(StrategyRanges(st)))

FetchesOf(c) == {k \in DOMAIN fetch_log : fetch_log[k].coin = c}
EvaluationsOf(c, t) ==
    {k \in DOMAIN eval_log : eval_log[k].coin = c /\ eval_log[k].combo = t}

\* The candles a coin needs under a signal type: the longest long period of
\* the tuples for the crossover, 50 for the range signals, the longest period
\* of the tuples for RSI, and 20 where the ranges list no period.
RequiredCandles(st) ==
    IF st = "SMA 5min"
        THEN SeqMax([k \in DOMAIN combinations |-> combinations[k][2]])
    ELSE IF st \in RangeSignals THEN 50
    ELSE IF st \in {"Scalping 1min", "MACD 15min"} THEN 20
    ELSE SeqMax([k \in DOMAIN combinations |-> combinations[k][1]])

Unavailable(d) == d = <<>>
TooShort(d, st) == d # <<>> /\ d[1] < RequiredCandles(st)
SkippedFetch(k) ==
    Unavailable(fetch_log[k].df) \/ TooShort(fetch_log[k].df, signal_type)

\* The non-None values the evaluator calls returned, in call order.
NonNoneResults ==
    LET hits == SelectSeq(eval_log, LAMBDA e : e.result # <<>>)
    IN [k \in DOMAIN hits |-> hits[k].result[1]]

\* C13: when _run_all_tests returns, each selected coin's series has been
\* fetched exactly once, every tuple of the Cartesian product of the ranges
\* has been evaluated exactly once for every coin that was not skipped (and
\* nothing else was evaluated), and the returned list holds exactly the
\* non-None results, none dropped and none duplicated.
C13_EachPairEvaluatedOnce ==
    spc = "returned" =>
        /\ \A c \in Elems(selected_coins) : Cardinality(FetchesOf(c)) = 1
        /\ Len(fetch_log) = Len(selected_coins)
        /\ \A k \in DOMAIN fetch_log : ~SkippedFetch(k) =>
                \A t \in CartesianProduct(signal_type) :
                    Cardinality(EvaluationsOf(fetch_log[k].coin, t)) = 1
        /\ \A k \in DOMAIN eval_log :
                /\ eval_log[k].combo \in CartesianProduct(signal_type)
                /\ \E j \in DOMAIN fetch_log :
                        fetch_log[j].coin = eval_log[k].coin /\ ~SkippedFetch(j)
        /\ all_results = NonNoneResults

\* A returned sweep of two coins over a product of two lists with two
\* elements each, with rows and None results.
C13_Witness ==
    /\ spc = "returned"
    /\ Len(selected_coins) = 2
    /\ Cardinality(CartesianProduct(signal_type)) = 4
    /\ Len(eval_log) = 8
    /\ Len(all_results) = 5

\* C14: a coin whose fetched series is unavailable or shorter than the
\* strategy's minimum lookback is skipped entirely: no tuple is evaluated for
\* it, no row of it is in the output, and no error is raised (the worker does
\* not enter its except clause because of it).
C14_ShortCoinSkipped ==
    \A k \in DOMAIN fetch_log :
        (SkippedFetch(k) /\ spc # "check") =>
            /\ \A j \in DOMAIN eval_log : eval_log[j].coin # fetch_log[k].coin
            /\ \A j \in DOMAIN all_results : all_results[j].coin # fetch_log[k].coin
            /\ spc # "except"
            /\ ~StatusScheduled("Error")

\* A finished sweep in which the first coin's series was too short and the
\* second coin's fetch failed.
C14_Witness ==
    /\ spc = "done"
    /\ Len(fetch_log) = 2
    /\ TooShort(fetch_log[1].df, signal_type)
    /\ Unavailable(fetch_log[2].df)
    /\ eval_log = <<>>
    /\ Displayed(<<>>)

FailedFetches == {k \in DOMAIN fetch_log : Unavailable(fetch_log[k].df)}
FailedEvaluations == {k \in DOMAIN eval_log : eval_log[k].kind = "error"}

\* C15: a single coin's or tuple's failure never aborts the rest of the
\* sweep: the worker enters its except clause only before the first fetch,
\* and in a sweep where a fetch failed or an evaluation hit an error, every
\* coin is still fetched, every tuple of every coin that is not skipped is
\* still evaluated and every non-None result is in the list.
C15_FailureDoesNotAbort ==
    /\ spc = "except" => (fetch_log = <<>> /\ eval_log = <<>>)
    /\ (FailedFetches # {} \/ FailedEvaluations # {}) =>
            /\ spc # "except"
            /\ spc \in {"returned", "save", "display", "finally", "done"} =>
                /\ Elems(selected_coins) = {fetch_log[k].coin : k \in DOMAIN fetch_log}
                /\ \A k \in DOMAIN fetch_log : ~SkippedFetch(k) =>
                        \A t \in CartesianProduct(signal_type) :
                            EvaluationsOf(fetch_log[k].coin, t) # {}
                /\ \A k \in DOMAIN eval_log : eval_log[k].result # <<>> =>
                        \E j \in DOMAIN all_results :
                            all_results[j] = eval_log[k].result[1]

\* A finished sweep whose first fetch failed and whose second coin had an
\* evaluation error followed by a tuple that gave a row.
C15_Witness ==
    /\ spc = "done"
    /\ Len(fetch_log) = 2
    /\ 1 \in FailedFetches
    /\ Len(eval_log) >= 2
    /\ 1 \in FailedEvaluations
    /\ eval_log[2].kind = "row"
    /\ Len(all_results) >= 1

-----------------------------------------------------------------------------
(* The live signal generators: _load_coin_parameters and generate_signal *)

MaxStoreRecords == 2
MaxCalls == 2

Generators == {"support_resistance_1h", "bollinger_bands_30min"}

\* The strategy name each generator looks its parameters up under.
StrategyKey(gen) ==
    IF gen = "support_resistance_1h" THEN "support_resistance-1h"
    ELSE "bollinger_bands-30min"

\* The default values of the constructor's arguments; tolerance_percent,
\* min_distance_percent, std_dev and touch_threshold are written in tenths.
HardCodedDefaults(gen) ==
    IF gen = "support_resistance_1h"
    THEN [lookback_periods |-> 100, min_touches |-> 3,
          tolerance_percent |-> 10, min_distance_percent |-> 20]
    ELSE [period |-> 20, std_dev |-> 20, touch_threshold |-> 5]

\* params.get(key, default)
DictGet(d, key, default) == IF key \in DOMAIN d THEN d[key] ELSE default

\* The if branch of _load_coin_parameters: each attribute is read from the
\* stored parameters, with the default for a key they lack.
ParametersOnHit(defaults, params) ==
    [key \in DOMAIN defaults |-> DictGet(params, key, defaults[key])]

\* The else branch of _load_coin_parameters: each attribute is set to its
\* default.
ParametersKept(defaults, current) == current
ParametersOnMiss(defaults, current) == defaults

\* The records of the parameter store: what save_best_results has written
\* for some coin under some strategy name.
StoredSignals == {"support_resistance-1h", "bollinger_bands-30min", "rsi-1min"}
StoreRecords ==
    {SaveData(Row(c, p, 9), sig, "24 Hours", 100) :
        c \in Elems(MonitoredCoins), p \in Periods, sig \in StoredSignals}
Stores == UNION {[1..n -> StoreRecords] : n \in 0..MaxStoreRecords}

\* backtest_loader.get_parameters(coin, strategy): the parameters of the most
\* recently written record of the pair, None (<<>>) when there is none.
Matching(st, coin, strategy) ==
    {k \in DOMAIN st : st[k].coin = coin /\ st[k].signal = strategy}
GetParameters(st, coin, strategy) ==
    LET m == Matching(st, coin, strategy)
    IN IF m = {} THEN <<>>
       ELSE <<st[CHOOSE k \in m : \A j \in m : j <= k].best_parameters>>

\* A logger call.
LogEntry(level, message, coin) == [level |-> level, message |-> message, coin |-> coin]

\* How the rest of generate_signal ends: a signal, too few candles, or an
\* exception.  The except clause turns an exception into a None result.
BodyOutcomes == {"signal", "insufficient", "exception"}
ReturnOf(outcome) == IF outcome = "signal" THEN "signal" ELSE "none"

InitLive ==
    /\ EvalIdle
    /\ RankIdle
    /\ SweepIdle
    /\ LevelsIdle
    /\ IndIdle
    /\ RateIdle
    /\ RangeIdle
    /\ BandIdle
    /\ PivotIdle
    /\ SharedIdle
    /\ PageIdle
    /\ SelectIdle
    /\ generator \in Generators
    /\ store \in Stores
    /\ live_coin = ""
    /\ live_params = HardCodedDefaults(generator)
    /\ live_log = <<>>
    /\ live_result = ""
    /\ live_calls = 0
    /\ lpc = "ready"

\* generate_signal(coin) is called: _load_coin_parameters(coin)
LoadCoinParameters ==
    /\ lpc = "ready"
    /\ live_calls < MaxCalls
    /\ \E coin \in Elems(MonitoredCoins) :
        LET params == GetParameters(store, coin, StrategyKey(generator))
            defaults == HardCodedDefaults(generator)
        IN /\ live_coin' = coin
           /\ live_params' =
                IF params # <<>> THEN ParametersOnHit(defaults, params[1])
                ELSE ParametersOnMiss(defaults, live_params)
           /\ live_log' =
                <<LogEntry("info",
                           IF params # <<>> THEN "Using optimized parameters"
                           ELSE "Using default parameters", coin)>>
    /\ live_calls' = live_calls + 1
    /\ live_result' = ""
    /\ lpc' = "loaded"
    /\ UNCHANGED <<generator, store>>
    /\ UNCHANGED outsideLive

\* The rest of generate_signal, up to its return
GenerateSignal ==
    /\ lpc = "loaded"
    /\ \E outcome \in BodyOutcomes :
        /\ live_result' = ReturnOf(outcome)
        /\ live_log' = Append(live_log,
                CASE outcome = "signal" -> LogEntry("info", "signal", live_coin)
                  [] outcome = "insufficient" ->
                        LogEntry("warning", "Insufficient data", live_coin)
                  [] OTHER -> LogEntry("error", "Error generating signal", live_coin))
    /\ lpc' = "ready"
    /\ UNCHANGED <<generator, store, live_coin, live_params, live_calls>>
    /\ UNCHANGED outsideLive

NextLive ==
    \/ LoadCoinParameters
    \/ GenerateSignal

SpecLive == InitLive /\ [][NextLive]_vars

-----------------------------------------------------------------------------
(* Claims about the live generators (checked under SpecLive) *)

Miss == GetParameters(store, live_coin, StrategyKey(generator)) = <<>>

\* C16: when the parameter store holds no record for the (coin, strategy)
\* pair of a generate_signal call, the generator's parameters for that call
\* are exactly its hard-coded defaults, the miss is logged at info level, and
\* the call returns a signal or None: no error is raised to its caller.
C16_LookupMissUsesDefaults ==
    (live_calls > 0 /\ Miss) =>
        /\ live_params = HardCodedDefaults(generator)
        /\ live_log[1] = LogEntry("info", "Using default parameters", live_coin)
        /\ live_result \in {"", "signal", "none"}

\* A second call that misses, made after a call for another coin that used
\* stored parameters different from the defaults.
C16_Witness ==
    /\ live_calls = 2
    /\ lpc = "ready"
    /\ Miss
    /\ live_result = "none"
    /\ \E c \in Elems(MonitoredCoins) :
        /\ c # live_coin
        /\ GetParameters(store, c, StrategyKey(generator)) # <<>>
        /\ ParametersOnHit(HardCodedDefaults(generator),
                           GetParameters(store, c, StrategyKey(generator))[1])
                # HardCodedDefaults(generator)

-----------------------------------------------------------------------------
(* The support/resistance detector: _filter_levels_by_distance and *)
(* _find_nearest_levels                                             *)

MaxLevels == 3

\* Price levels; percentages are written in tenths of a percent.
LevelValues == {100, 101, 102, 103, 105}
MinDistances == {10, 20}
CurrentPrices == {99, 102, 104, 106}

\* _cluster_levels returns the cluster means in ascending order.
AscendingSeq(S) ==
    CHOOSE s \in [1..Cardinality(S) -> S] :
        \A i, j \in 1..Cardinality(S) : i < j => s[i] < s[j]

ClusteredLevels ==
    {AscendingSeq(S) : S \in {T \in SUBSET LevelValues : Cardinality(T) <= MaxLevels}}

\* `distance = abs(level - filtered_level) / filtered_level * 100` and
\* `distance < min_distance_percent`, with min_distance in tenths of a percent
TooCloseOrAt(level, filtered_level, min_distance) ==
    Abs(level - filtered_level) * 1000 <= min_distance * filtered_level
TooClose(level, filtered_level, min_distance) ==
    Abs(level - filtered_level) * 1000 < min_distance * filtered_level

\* The loop of _filter_levels_by_distance over the first n levels.
RECURSIVE FilterPrefix(_, _, _)
FilterPrefix(levels, n, min_distance) ==
    IF n = 0 THEN <<>>
    ELSE LET filtered == FilterPrefix(levels, n - 1, min_distance)
         IN IF \E k \in DOMAIN filtered :
                    TooClose(levels[n], filtered[k], min_distance)
            THEN filtered
            ELSE Append(filtered, levels[n])

\* _filter_levels_by_distance
FilterLevelsByDistance(levels, min_distance) ==
    FilterPrefix(levels, Len(levels), min_distance)

\* `r > current_price` and `s < current_price`
AboveOrAt(level, price) == level >= price
Above(level, price) == level > price
Below(level, price) == level < price

\* min(...) and max(...) of a non-empty list
RECURSIVE SeqMinPrefix(_, _)
SeqMinPrefix(s, n) ==
    IF n = 1 THEN s[1]
    ELSE LET m == SeqMinPrefix(s, n - 1) IN IF s[n] < m THEN s[n] ELSE m
SeqMin(s) == SeqMinPrefix(s, Len(s))

\* _find_nearest_levels: the nearest resistance (<<>> is None)
NearestResistance(price, levels) ==
    LET valid_resistance == SelectSeq(levels, LAMBDA r : Above(r, price))
    IN IF valid_resistance # <<>> THEN <<SeqMin(valid_resistance)>> ELSE <<>>

\* _find_nearest_levels: the nearest support (<<>> is None)
NearestSupport(price, levels) ==
    LET valid_support == SelectSeq(levels, LAMBDA r : Below(r, price))
    IN IF valid_support # <<>> THEN <<SeqMax(valid_support)>> ELSE <<>>

InitLevels ==
    /\ EvalIdle
    /\ RankIdle
    /\ SweepIdle
    /\ LiveIdle
    /\ IndIdle
    /\ RateIdle
    /\ RangeIdle
    /\ BandIdle
    /\ PivotIdle
    /\ SharedIdle
    /\ PageIdle
    /\ SelectIdle
    /\ clustered_resistance \in ClusteredLevels
    /\ clustered_support \in ClusteredLevels
    /\ min_distance_percent \in MinDistances
    /\ current_price \in CurrentPrices
    /\ resistance_levels = <<>>
    /\ support_levels = <<>>
    /\ nearest_resistance = <<>>
    /\ nearest_support = <<>>
    /\ vpc = "clustered"

\* _identify_support_resistance_levels, lines 235-239: both lists are filtered
FilterLevels ==
    /\ vpc = "clustered"
    /\ resistance_levels' =
            FilterLevelsByDistance(clustered_resistance, min_distance_percent)
    /\ support_levels' =
            FilterLevelsByDistance(clustered_support, min_distance_percent)
    /\ vpc' = "identified"
    /\ UNCHANGED <<clustered_resistance, clustered_support,
                   min_distance_percent, current_price, nearest_resistance,
                   nearest_support>>
    /\ UNCHANGED outsideLevels

\* _find_nearest_levels(current_price, resistance_levels, support_levels)
FindNearestLevels ==
    /\ vpc = "identified"
    /\ nearest_resistance' = NearestResistance(current_price, resistance_levels)
    /\ nearest_support' = NearestSupport(current_price, support_levels)
    /\ vpc' = "nearest"
    /\ UNCHANGED <<clustered_resistance, clustered_support,
                   min_distance_percent, current_price, resistance_levels,
                   support_levels>>
    /\ UNCHANGED outsideLevels

NextLevels ==
    \/ FilterLevels
    \/ FindNearestLevels

SpecLevels == InitLevels /\ [][NextLevels]_vars

-----------------------------------------------------------------------------
(* Claims about the detector (checked under SpecLevels) *)

\* The value v is the least element of the list above the price, None when
\* no element is above it.
IsLeastAbove(v, price, levels) ==
    IF \E k \in DOMAIN levels : levels[k] > price
    THEN /\ v # <<>>
         /\ v[1] \in Elems(levels)
         /\ v[1] > price
         /\ \A k \in DOMAIN levels : levels[k] > price => v[1] <= levels[k]
    ELSE v = <<>>

IsGreatestBelow(v, price, levels) ==
    IF \E k \in DOMAIN levels : levels[k] < price
    THEN /\ v # <<>>
         /\ v[1] \in Elems(levels)
         /\ v[1] < price
         /\ \A k \in DOMAIN levels : levels[k] < price => v[1] >= levels[k]
    ELSE v = <<>>

\* C17: _find_nearest_levels returns as nearest resistance the minimum
\* resistance level strictly greater than the price (None when there is
\* none) and as nearest support the maximum support level strictly less than
\* the price (None when there is none).
C17_NearestLevels ==
    vpc = "nearest" =>
        /\ IsLeastAbove(nearest_resistance, current_price, resistance_levels)
        /\ IsGreatestBelow(nearest_support, current_price, support_levels)

\* The price equals the middle one of three kept resistance levels and a
\* kept support level that has a support below it.
C17_Witness ==
    /\ vpc = "nearest"
    /\ Len(resistance_levels) = 3
    /\ current_price = resistance_levels[2]
    /\ current_price \in Elems(support_levels)
    /\ nearest_resistance = <<resistance_levels[3]>>
    /\ nearest_support # <<>>

\* The distance of a level from an earlier kept level, as a percentage of the
\* earlier one, is at least min_distance (in tenths of a percent).
FarEnough(earlier, later, min_distance) ==
    Abs(later - earlier) * 1000 >= min_distance * earlier

\* kept is what a scan of levels keeps: the levels at the indices of a set K
\* in which an index lies exactly when its level is far enough from the level
\* of every smaller index of K (so the first index always lies in K).
IsGreedyScan(kept, levels, min_distance) ==
    \E K \in SUBSET DOMAIN levels :
        /\ \A k \in DOMAIN levels :
                k \in K <=> \A j \in K : j < k =>
                                FarEnough(levels[j], levels[k], min_distance)
        /\ Len(kept) = Cardinality(K)
        /\ \A i \in DOMAIN kept :
                \E k \in K : /\ kept[i] = levels[k]
                             /\ Cardinality({j \in K : j < k}) = i - 1

PairwiseFar(kept, min_distance) ==
    \A i, j \in DOMAIN kept :
        i < j => FarEnough(kept[i], kept[j], min_distance)

\* C18: after identification no two kept levels of the same kind are within
\* min_distance_percent of each other (measured, as the scan measures it, from
\* the level kept earlier), and the kept levels are those a scan of the
\* clustered levels in order keeps: a level is kept exactly when it is at
\* least min_distance_percent away from every level kept before it, the first
\* level always.
C18_KeptLevelsFarApart ==
    vpc \in {"identified", "nearest"} =>
        /\ PairwiseFar(resistance_levels, min_distance_percent)
        /\ PairwiseFar(support_levels, min_distance_percent)
        /\ IsGreedyScan(resistance_levels, clustered_resistance, min_distance_percent)
        /\ IsGreedyScan(support_levels, clustered_support, min_distance_percent)

\* Three clustered levels of which the middle one is dropped, and the last
\* one kept at exactly the minimum distance from the first.
C18_Witness ==
    /\ vpc = "identified"
    /\ clustered_resistance = <<100, 101, 102>>
    /\ min_distance_percent = 20
    /\ resistance_levels = <<100, 102>>

-----------------------------------------------------------------------------
(* The indicators and the RSI and SMA-crossover evaluators *)

MaxCandles == 4

\* A float that is not NaN is a rational, or +inf (the result of x / 0.0
\* for x > 0); NaN is <<>>.
Infinity == [n |-> 1, d |-> 0]
RatNeg(x) == [n |-> -(x.n), d |-> x.d]
RatSub(x, y) == RatAdd(x, RatNeg(y))
RatLE(x, y) == x.n * y.d <= y.n * x.d
RatLT(x, y) == x.n * y.d < y.n * x.d

\* A comparison of two floats: False when either is NaN.
FloatLEOrNaN(x, y) == IF x = <<>> \/ y = <<>> THEN TRUE ELSE RatLE(x[1], y[1])
FloatLE(x, y) == IF x = <<>> \/ y = <<>> THEN FALSE ELSE RatLE(x[1], y[1])
FloatLT(x, y) == IF x = <<>> \/ y = <<>> THEN FALSE ELSE RatLT(x[1], y[1])

\* prices.diff(): NaN at the first sample
Diff(prices) ==
    [k \in DOMAIN prices |->
        IF k = 1 THEN <<>> ELSE <<RatInt(prices[k] - prices[k - 1])>>]

\* deltas.where(deltas > 0, 0): an element is kept where the condition is
\* True and replaced by 0 elsewhere; NaN > 0 is False.
Where(series, positive) ==
    [k \in DOMAIN series |->
        IF series[k] # <<>>
           /\ (IF positive THEN series[k][1].n > 0 ELSE series[k][1].n < 0)
        THEN series[k]
        ELSE <<RatInt(0)>>]

\* -series
Negated(series) ==
    [k \in DOMAIN series |->
        IF series[k] = <<>> THEN <<>> ELSE <<RatNeg(series[k][1])>>]

RECURSIVE WindowSum(_, _, _)
WindowSum(series, from, to) ==
    IF from > to THEN RatInt(0)
    ELSE RatAdd(WindowSum(series, from, to - 1), series[to][1])

\* series.rolling(window=period).mean(): NaN until the window holds `period`
\* observations, none of them NaN.
RollingMean(series, period) ==
    [k \in DOMAIN series |->
        IF k < period \/ \E j \in (k - period + 1)..k : series[j] = <<>>
        THEN <<>>
        ELSE <<RatDiv(WindowSum(series, k - period + 1, k), RatInt(period))>>]

\* gain / loss: x / 0.0 is inf for x > 0 and NaN for x = 0
FloatDiv(x, y) ==
    IF x = <<>> \/ y = <<>> THEN <<>>
    ELSE IF y[1].n = 0 THEN (IF x[1].n = 0 THEN <<>> ELSE <<Infinity>>)
    ELSE <<RatDiv(x[1], y[1])>>

\* 100 - (100 / (1 + rs)): 100 / inf is 0
RsiOf(rs) ==
    IF rs = <<>> THEN <<>>
    ELSE IF rs[1] = Infinity THEN <<RatInt(100)>>
    ELSE <<RatSub(RatInt(100), RatDiv(RatInt(100), RatAdd(RatInt(1), rs[1])))>>

\* calculate_rsi
CalculateRsi(prices, period) ==
    LET deltas == Diff(prices)
        gain == RollingMean(Where(deltas, TRUE), period)
        loss == RollingMean(Negated(Where(deltas, FALSE)), period)
    IN [k \in DOMAIN prices |-> RsiOf(FloatDiv(gain[k], loss[k]))]

\* calculate_sma
CalculateSma(prices, period) ==
    RollingMean([k \in DOMAIN prices |-> <<RatInt(prices[k])>>], period)

\* A signal dict; the timestamp of a candle is its index.
CandleSignal(action, prices, k) ==
    [action |-> action, price |-> prices[k], timestamp |-> k]

\* run_rsi_backtest, lines 36-53: the signals candle k adds
RsiSignalsAt(prices, rsi, k, oversold, overbought) ==
    IF rsi[k] = <<>> THEN <<>>
    ELSE IF FloatLE(rsi[k], <<RatInt(oversold)>>)
        THEN <<CandleSignal("BUY", prices, k)>>
    ELSE IF FloatLE(<<RatInt(overbought)>>, rsi[k])
        THEN <<CandleSignal("SELL", prices, k)>>
    ELSE <<>>

\* run_sma_backtest, lines 98-121: the signals candle k adds (k >= 2)
SmaSignalsAt(prices, short, long, k) ==
    IF short[k] = <<>> \/ long[k] = <<>> THEN <<>>
    ELSE IF FloatLE(short[k - 1], long[k - 1]) /\ FloatLT(long[k], short[k])
        THEN <<CandleSignal("BUY", prices, k)>>
    ELSE IF FloatLE(long[k - 1], short[k - 1]) /\ FloatLT(short[k], long[k])
        THEN <<CandleSignal("SELL", prices, k)>>
    ELSE <<>>

\* simulate_trades over the first n signals: its locals after the loop
RECURSIVE SimulateLoop(_, _, _)
SimulateLoop(sigs, n, size) ==
    IF n = 0 THEN [position |-> <<>>, trades |-> <<>>]
    ELSE LET s == SimulateLoop(sigs, n - 1, size)
         IN IF BuyAccepted(sigs[n], s.position)
                THEN [position |-> <<NewPosition(sigs[n], size)>>,
                      trades |-> s.trades]
            ELSE IF SellAccepted(sigs[n], s.position)
                THEN [position |-> <<>>,
                      trades |-> AppendTrade(s.trades,
                                             NewTrade(s.position[1], sigs[n]))]
            ELSE s

\* simulate_trades(signals, position_size)
SimulateTrades(sigs, size) ==
    LET s == SimulateLoop(sigs, Len(sigs), size)
    IN ReturnedTrades(s.trades, s.position, sigs)

\* The evaluator's tail: trades, statistics, None or the row
EvaluatorResult(ev, sigs, size) ==
    LET st == TradeStatistics(SimulateTrades(sigs, size))
    IN IF st = <<>> THEN <<>> ELSE <<ResultRow(ev, sigs, st[1])>>

\* Closes of short series, and the periods tried on them.
ClosePrices == {1, 2, 3}
ShortSeries == UNION {[1..n -> ClosePrices] : n \in 0..MaxCandles}
RsiParameters == {<<period, 30, 70>> : period \in {1, 2, 3}}
SmaParameters == {<<1, 2>>, <<1, 3>>, <<2, 3>>}

\* Strictly increasing series from 100 to 200 over 50 candles: equal steps
\* (written in 49ths, so 4900 is 100 and 9800 is 200), steps of 1 with a last
\* jump, and a first jump followed by steps of 1.
RisingSeries ==
    {[k \in 1..50 |-> 4900 + 100 * (k - 1)],
     [k \in 1..50 |-> IF k = 50 THEN 200 ELSE 99 + k],
     [k \in 1..50 |-> IF k = 1 THEN 100 ELSE 150 + k]}

InitInd ==
    /\ EvalIdle
    /\ RankIdle
    /\ SweepIdle
    /\ LiveIdle
    /\ LevelsIdle
    /\ RateIdle
    /\ RangeIdle
    /\ BandIdle
    /\ PivotIdle
    /\ SharedIdle
    /\ PageIdle
    /\ SelectIdle
    /\ \/ /\ ind_strategy = "rsi"
          /\ close \in ShortSeries
          /\ ind_params \in RsiParameters
       \/ /\ ind_strategy = "sma"
          /\ close \in ShortSeries
          /\ ind_params \in SmaParameters
       \/ /\ ind_strategy = "sma"
          /\ close \in RisingSeries
          /\ ind_params = <<5, 20>>
    /\ rsi_series = <<>>
    /\ short_sma = <<>>
    /\ long_sma = <<>>
    /\ ind_signals = <<>>
    /\ ind_i = 0
    /\ ind_result = <<>>
    /\ ipc = "start"

\* run_rsi_backtest, lines 30-34: the RSI column and the loop's start
RsiColumn ==
    /\ ipc = "start"
    /\ ind_strategy = "rsi"
    /\ rsi_series' = CalculateRsi(close, ind_params[1])
    /\ ind_signals' = <<>>
    /\ ind_i' = 1
    /\ ipc' = "loop"
    /\ UNCHANGED <<ind_strategy, close, ind_params, short_sma, long_sma, ind_result>>
    /\ UNCHANGED outsideInd

\* run_rsi_backtest: one pass of `for i in range(len(df_copy))`
RsiCandle ==
    /\ ipc = "loop"
    /\ ind_strategy = "rsi"
    /\ ind_i <= Len(close)
    /\ ind_signals' = ind_signals \o
            RsiSignalsAt(close, rsi_series, ind_i, ind_params[2], ind_params[3])
    /\ ind_i' = ind_i + 1
    /\ UNCHANGED <<ind_strategy, close, ind_params, rsi_series, short_sma,
                   long_sma, ind_result, ipc>>
    /\ UNCHANGED outsideInd

\* run_sma_backtest, lines 92-97: the two SMA columns and the loop's start
SmaColumns ==
    /\ ipc = "start"
    /\ ind_strategy = "sma"
    /\ short_sma' = CalculateSma(close, ind_params[1])
    /\ long_sma' = CalculateSma(close, ind_params[2])
    /\ ind_signals' = <<>>
    /\ ind_i' = 2
    /\ ipc' = "loop"
    /\ UNCHANGED <<ind_strategy, close, ind_params, rsi_series, ind_result>>
    /\ UNCHANGED outsideInd

\* run_sma_backtest: one pass of `for i in range(1, len(df_copy))`
SmaCandle ==
    /\ ipc = "loop"
    /\ ind_strategy = "sma"
    /\ ind_i <= Len(close)
    /\ ind_signals' = ind_signals \o SmaSignalsAt(close, short_sma, long_sma, ind_i)
    /\ ind_i' = ind_i + 1
    /\ UNCHANGED <<ind_strategy, close, ind_params, rsi_series, short_sma,
                   long_sma, ind_result, ipc>>
    /\ UNCHANGED outsideInd

\* The loop is over: simulate_trades, calculate_trade_statistics, return
IndicatorEvaluatorReturn ==
    /\ ipc = "loop"
    /\ ind_i > Len(close)
    /\ ind_result' = EvaluatorResult(ind_strategy, ind_signals, 100)
    /\ ipc' = "done"
    /\ UNCHANGED <<ind_strategy, close, ind_params, rsi_series, short_sma,
                   long_sma, ind_signals, ind_i>>
    /\ UNCHANGED outsideInd

NextInd ==
    \/ RsiColumn
    \/ RsiCandle
    \/ SmaColumns
    \/ SmaCandle
    \/ IndicatorEvaluatorReturn

SpecInd == InitInd /\ [][NextInd]_vars

-----------------------------------------------------------------------------
(* Claims about the indicators and their evaluators (checked under SpecInd) *)

\* C19: for every price series and period, calculate_rsi yields not-available
\* for each of the first `period` samples, so run_rsi_backtest generates no
\* signal at those samples.
C19_RsiUnavailableForFirstPeriod ==
    (ind_strategy = "rsi" /\ ipc \in {"loop", "done"}) =>
        /\ \A k \in DOMAIN rsi_series :
                k <= ind_params[1] => rsi_series[k] = <<>>
        /\ \A j \in DOMAIN ind_signals :
                ind_signals[j].timestamp > ind_params[1]

RisingScenario ==
    /\ ind_strategy = "sma"
    /\ close \in RisingSeries
    /\ ind_params = <<5, 20>>

SignalsWith(action) == {j \in DOMAIN ind_signals : ind_signals[j].action = action}

\* C20 as stated: on prices rising strictly from 100 to 200 over 50 candles
\* the SMA(5)/SMA(20) crossover evaluator generates exactly one BUY and no
\* SELL, and returns None.
C20_OneBuyNoSell ==
    (RisingScenario /\ ipc = "done") =>
        /\ Cardinality(SignalsWith("BUY")) = 1
        /\ SignalsWith("SELL") = {}
        /\ ind_result = <<>>

\* C20, amended: on prices rising strictly from 100 to 200 over 50 candles
\* the SMA(5)/SMA(20) crossover evaluator generates no signal at all, neither
\* BUY nor SELL, and returns None.
C20_NoSignalNoResult ==
    RisingScenario =>
        /\ ind_signals = <<>>
        /\ ipc = "done" => ind_result = <<>>

\* The evaluator has returned on a rising series; both averages exist from
\* candle 20 on, the short one above the long one.
C20_Witness ==
    /\ RisingScenario
    /\ ipc = "done"
    /\ Len(close) = 50
    /\ long_sma[19] = <<>>
    /\ \A k \in 20..50 : FloatLT(long_sma[k], short_sma[k])
    /\ ind_result = <<>>

-----------------------------------------------------------------------------
(* SpecRate: the candle fetches sent to the klines endpoint.                *)
(* Two threads call the fetch paths: a live generator's _fetch_candles,     *)
(* which first runs the generator's _rate_limit, or the backtest fetcher's  *)
(* fetch_historical_data. Time is counted in tenths of a second; it passes  *)
(* between any two statements of a thread.                                  *)

MaxTime == 10
MaxRequests == 2

\* self.min_request_interval = 0.5, in tenths of a second
MinRequestInterval == 5

CallerThreads == {1, 2}
IdleCaller == [path |-> "", pc |-> "idle", wake |-> 0]

InFlight == Cardinality({t \in CallerThreads : callers[t].pc # "idle"})

\* elapsed < self.min_request_interval
MustSleep(elapsed) == elapsed < MinRequestInterval

\* time.sleep(d) returns once at least d has passed
SleepOver(caller) == now >= caller.wake

\* self.last_request_time = 0 in both constructors; the clock is well past
\* the first interval when the generators are built.
InitRate ==
    /\ EvalIdle
    /\ RankIdle
    /\ SweepIdle
    /\ LiveIdle
    /\ LevelsIdle
    /\ IndIdle
    /\ RangeIdle
    /\ BandIdle
    /\ PivotIdle
    /\ SharedIdle
    /\ PageIdle
    /\ SelectIdle
    /\ now = MinRequestInterval
    /\ last_request_time = [g \in Generators |-> 0]
    /\ callers = [t \in CallerThreads |-> IdleCaller]
    /\ requests = <<>>

\* time.time() advances
Tick ==
    /\ now < MaxTime
    /\ now' = now + 1
    /\ UNCHANGED <<last_request_time, callers, requests>>
    /\ UNCHANGED outsideRate

\* generate_signal calls self._fetch_candles(coin, ...), which enters the try
CallFetchCandles(t) ==
    /\ callers[t].pc = "idle"
    /\ Len(requests) + InFlight < MaxRequests
    /\ \E g \in Generators :
         callers' = [callers EXCEPT ![t] = [path |-> g, pc |-> "rate_limit",
                                            wake |-> 0]]
    /\ UNCHANGED <<now, last_request_time, requests>>
    /\ UNCHANGED outsideRate

\* _run_all_tests calls fetch_historical_data, which builds the request
CallFetchHistoricalData(t) ==
    /\ callers[t].pc = "idle"
    /\ Len(requests) + InFlight < MaxRequests
    /\ callers' = [callers EXCEPT ![t] = [path |-> "backtest",
                                          pc |-> "request", wake |-> 0]]
    /\ UNCHANGED <<now, last_request_time, requests>>
    /\ UNCHANGED outsideRate

\* _rate_limit: elapsed = time.time() - self.last_request_time and the test
RateLimitElapsed(t) ==
    /\ callers[t].pc = "rate_limit"
    /\ LET elapsed == now - last_request_time[callers[t].path]
       IN  callers' = [callers EXCEPT ![t] =
               IF MustSleep(elapsed)
               THEN [@ EXCEPT !.pc = "sleep",
                              !.wake = now + (MinRequestInterval - elapsed)]
               ELSE [@ EXCEPT !.pc = "stamp"]]
    /\ UNCHANGED <<now, last_request_time, requests>>
    /\ UNCHANGED outsideRate

\* _rate_limit: time.sleep(self.min_request_interval - elapsed) returns
RateLimitSleep(t) ==
    /\ callers[t].pc = "sleep"
    /\ SleepOver(callers[t])
    /\ callers' = [callers EXCEPT ![t].pc = "stamp"]
    /\ UNCHANGED <<now, last_request_time, requests>>
    /\ UNCHANGED outsideRate

\* _rate_limit: self.last_request_time = time.time()
RateLimitStamp(t) ==
    /\ callers[t].pc = "stamp"
    /\ last_request_time' =
           [last_request_time EXCEPT ![callers[t].path] = now]
    /\ callers' = [callers EXCEPT ![t].pc = "request"]
    /\ UNCHANGED <<now, requests>>
    /\ UNCHANGED outsideRate

\* requests.get(url, params=params, timeout=...) and the return
RequestsGet(t) ==
    /\ callers[t].pc = "request"
    /\ requests' = Append(requests, [time |-> now, path |-> callers[t].path])
    /\ callers' = [callers EXCEPT ![t] = IdleCaller]
    /\ UNCHANGED <<now, last_request_time>>
    /\ UNCHANGED outsideRate

NextRate ==
    \/ Tick
    \/ \E t \in CallerThreads : CallFetchCandles(t)
    \/ \E t \in CallerThreads : CallFetchHistoricalData(t)
    \/ \E t \in CallerThreads : RateLimitElapsed(t)
    \/ \E t \in CallerThreads : RateLimitSleep(t)
    \/ \E t \in CallerThreads : RateLimitStamp(t)
    \/ \E t \in CallerThreads : RequestsGet(t)

SpecRate == InitRate /\ [][NextRate]_vars

-----------------------------------------------------------------------------
(* Claim about the request spacing *)

\* C21: any two consecutive candle requests to the klines endpoint are at
\* least the minimum inter-request interval (0.5 s) apart, whichever fetch
\* path issued them and however the calling threads interleave.
C21_RequestsSpaced ==
    \A k \in 1..(Len(requests) - 1) :
        requests[k + 1].time - requests[k].time >= MinRequestInterval

-----------------------------------------------------------------------------
(* SpecRange: run_range_backtest from the candles to the returned row.      *)
(* Offsets and tolerances are written in tenths of a percent, so the band   *)
(* bounds are compared after multiplying both sides by 1000.                *)

MaxBars == 4

\* Candles as [low, close] with low <= close, as an exchange reports them.
Bars == {[low |-> l, close |-> c] : l \in {100, 102}, c \in {100, 101, 102, 103}}
BarSeries == UNION {[1..n -> {b \in Bars : b.low <= b.close}] : n \in 1..MaxBars}
LongOffsets == {-10, 0, 10}
Tolerances == {10}

Closes(bars) == [k \in DOMAIN bars |-> bars[k].close]

\* period_low = df['low'].min()
PeriodLow(bars) == SeqMin([k \in DOMAIN bars |-> bars[k].low])

\* buy_range_low = period_low * (1 + long_offset / 100), times 1000
BuyRangeLow(bars, params) == PeriodLow(bars) * (1000 + params[1])

\* buy_range_high = period_low * (1 + long_offset / 100 + tolerance / 100),
\* times 1000
BuyRangeHigh(bars, params) == PeriodLow(bars) * (1000 + params[1] + params[2])

\* buy_range_low <= current_price <= buy_range_high
InBuyRange(price, bars, params) ==
    /\ BuyRangeLow(bars, params) <= price * 1000
    /\ price * 1000 <= BuyRangeHigh(bars, params)

\* not in_range and buy_range_low <= current_price <= buy_range_high
EntersRangeAgain(inr, price, bars, params) == InBuyRange(price, bars, params)
EntersRange(inr, price, bars, params) ==
    ~inr /\ InBuyRange(price, bars, params)

\* in_range and current_price > buy_range_high
LeavesAbove(inr, price, bars, params) ==
    inr /\ price * 1000 > BuyRangeHigh(bars, params)

\* in_range and current_price < buy_range_low
LeavesBelow(inr, price, bars, params) ==
    inr /\ price * 1000 < BuyRangeLow(bars, params)

\* The if / elif / elif of the loop body at candle k: the signals appended
\* and the new in_range.
RangeStep(inr, bars, params, k) ==
    LET price == bars[k].close
    IN IF EntersRange(inr, price, bars, params)
           THEN [signals |-> <<CandleSignal("BUY", Closes(bars), k)>>,
                 in_range |-> TRUE]
       ELSE IF LeavesAbove(inr, price, bars, params)
           THEN [signals |-> <<CandleSignal("SELL", Closes(bars), k)>>,
                 in_range |-> FALSE]
       ELSE IF LeavesBelow(inr, price, bars, params)
           THEN [signals |-> <<CandleSignal("SELL", Closes(bars), k)>>,
                 in_range |-> FALSE]
       ELSE [signals |-> <<>>, in_range |-> inr]

\* The row run_range_backtest returns: period is long_offset, oversold is
\* tolerance, overbought is 0.
RangeRow(params, sigs, st) ==
    [coin |-> "BTC", period |-> params[1], oversold |-> params[2],
     overbought |-> 0, signals_generated |-> Len(sigs),
     total_trades |-> st.total_trades,
     winning_trades |-> st.winning_trades,
     losing_trades |-> st.losing_trades,
     win_rate |-> st.win_rate,
     total_profit_usd |-> st.total_profit_usd,
     avg_profit |-> st.avg_profit]

InitRange ==
    /\ EvalIdle
    /\ RankIdle
    /\ SweepIdle
    /\ LiveIdle
    /\ LevelsIdle
    /\ IndIdle
    /\ RateIdle
    /\ BandIdle
    /\ PivotIdle
    /\ SharedIdle
    /\ PageIdle
    /\ SelectIdle
    /\ range_df \in BarSeries
    /\ range_params \in LongOffsets \X Tolerances
    /\ in_range = FALSE
    /\ range_signals = <<>>
    /\ range_i = 0
    /\ range_trades = <<>>
    /\ range_result = <<>>
    /\ gpc = "start"

\* lines 161-169: the band, signals = [], in_range = False
RangeBand ==
    /\ gpc = "start"
    /\ range_signals' = <<>>
    /\ in_range' = FALSE
    /\ range_i' = 1
    /\ gpc' = "loop"
    /\ UNCHANGED <<range_df, range_params, range_trades, range_result>>
    /\ UNCHANGED outsideRange

\* for i in range(len(df)): one pass of the body
RangeCandle ==
    /\ gpc = "loop"
    /\ range_i <= Len(range_df)
    /\ LET step == RangeStep(in_range, range_df, range_params, range_i)
       IN /\ range_signals' = range_signals \o step.signals
          /\ in_range' = step.in_range
    /\ range_i' = range_i + 1
    /\ UNCHANGED <<range_df, range_params, range_trades, range_result, gpc>>
    /\ UNCHANGED outsideRange

\* trades = simulate_trades(signals, position_size)
RangeSimulateTrades ==
    /\ gpc = "loop"
    /\ range_i > Len(range_df)
    /\ range_trades' = SimulateTrades(range_signals, 100)
    /\ gpc' = "simulated"
    /\ UNCHANGED <<range_df, range_params, in_range, range_signals, range_i,
                   range_result>>
    /\ UNCHANGED outsideRange

\* stats = calculate_trade_statistics(trades); None or the row
RangeReturn ==
    /\ gpc = "simulated"
    /\ LET st == TradeStatistics(range_trades)
       IN range_result' = IF st = <<>> THEN <<>>
                          ELSE <<RangeRow(range_params, range_signals, st[1])>>
    /\ gpc' = "done"
    /\ UNCHANGED <<range_df, range_params, in_range, range_signals, range_i,
                   range_trades>>
    /\ UNCHANGED outsideRange

NextRange ==
    \/ RangeBand
    \/ RangeCandle
    \/ RangeSimulateTrades
    \/ RangeReturn

SpecRange == InitRange /\ [][NextRange]_vars

-----------------------------------------------------------------------------
(* Claim about the range evaluator *)

Inside(k) == InBuyRange(range_df[k].close, range_df, range_params)
RangeSells == {k \in DOMAIN range_signals : range_signals[k].action = "SELL"}

\* Every signal is taken by the scan of simulate_trades: a BUY opens a
\* position, a SELL closes one.
AllAccepted(sigs) ==
    \A k \in DOMAIN sigs :
        LET before == SimulateLoop(sigs, k - 1, 100).position
        IN IF sigs[k].action = "BUY"
               THEN BuyAccepted(sigs[k], before)
               ELSE SellAccepted(sigs[k], before)

\* C22: the range evaluator's signals alternate BUY, SELL, BUY, ... from a
\* BUY; each BUY is at a candle whose close is inside the band, each SELL at
\* the first later candle whose close is outside it (every candle between
\* the BUY and the SELL closes inside); the simulator accepts every signal
\* and returns as many trades as there are SELL signals.
C22_RangeSignalsAlternate ==
    /\ \A k \in DOMAIN range_signals :
           /\ range_signals[k].action = (IF k % 2 = 1 THEN "BUY" ELSE "SELL")
           /\ range_signals[k].action = "BUY" =>
                  Inside(range_signals[k].timestamp)
           /\ range_signals[k].action = "SELL" =>
                  /\ ~Inside(range_signals[k].timestamp)
                  /\ \A j \in range_signals[k - 1].timestamp
                                  ..(range_signals[k].timestamp - 1) : Inside(j)
    /\ in_range = (Len(range_signals) % 2 = 1)
    /\ gpc \in {"simulated", "done"} =>
           /\ AllAccepted(range_signals)
           /\ Len(range_trades) = Cardinality(RangeSells)

\* Two round trips, the first left above the band and the second below it.
C22_Witness ==
    /\ gpc = "done"
    /\ Len(range_signals) = 4
    /\ range_signals[2].price * 1000 > BuyRangeHigh(range_df, range_params)
    /\ range_signals[4].price * 1000 < BuyRangeLow(range_df, range_params)
    /\ Len(range_trades) = 2

-----------------------------------------------------------------------------
(* SpecBand: the band position of one candle, as the live Bollinger         *)
(* generator and as the Bollinger backtest evaluator compute it.            *)

BandPrices == 97..106
UpperBands == {100, 102, 104}
LowerBands == {96, 100, 102}

Half == Rat(1, 2)

\* Python's min(a, b) and max(a, b) of two floats
PyMin(a, b) == IF RatLT(b, a) THEN b ELSE a
PyMax(a, b) == IF RatLT(a, b) THEN b ELSE a

\* position = (price - lower) / (upper - lower)
RawPosition(price, upper, lower) == Rat(price - lower, upper - lower)

\* _calculate_bb_position(price, upper, lower, middle)
CalculateBbPosition(price, upper, lower) ==
    IF upper = lower THEN Half
    ELSE PyMax(RatInt(0), PyMin(RatInt(1), RawPosition(price, upper, lower)))

\* run_bollinger_bands_backtest, lines 408-412
BacktestBbPosition(price, upper, lower) ==
    IF upper # lower THEN RawPosition(price, upper, lower)
    ELSE Half

InitBand ==
    /\ EvalIdle
    /\ RankIdle
    /\ SweepIdle
    /\ LiveIdle
    /\ LevelsIdle
    /\ IndIdle
    /\ RateIdle
    /\ RangeIdle
    /\ PivotIdle
    /\ SharedIdle
    /\ PageIdle
    /\ SelectIdle
    /\ band_price \in BandPrices
    /\ band_upper \in UpperBands
    /\ band_lower \in {l \in LowerBands : l <= band_upper}
    /\ live_bb_position = <<>>
    /\ backtest_bb_position = <<>>

\* generate_signal: bb_position = self._calculate_bb_position(...)
LiveBandPosition ==
    /\ live_bb_position = <<>>
    /\ live_bb_position' =
           <<CalculateBbPosition(band_price, band_upper, band_lower)>>
    /\ UNCHANGED <<band_price, band_upper, band_lower, backtest_bb_position>>
    /\ UNCHANGED outsideBand

\* run_bollinger_bands_backtest: the bb_position of the loop body
BacktestBandPosition ==
    /\ backtest_bb_position = <<>>
    /\ backtest_bb_position' =
           <<BacktestBbPosition(band_price, band_upper, band_lower)>>
    /\ UNCHANGED <<band_price, band_upper, band_lower, live_bb_position>>
    /\ UNCHANGED outsideBand

NextBand ==
    \/ LiveBandPosition
    \/ BacktestBandPosition

SpecBand == InitBand /\ [][NextBand]_vars

-----------------------------------------------------------------------------
(* Claim about the band position *)

\* (price - lower) / (upper - lower) clamped to [0, 1]; 0.5 on a flat band
ClampedPosition ==
    IF band_upper = band_lower THEN Half
    ELSE LET raw == Rat(band_price - band_lower, band_upper - band_lower)
         IN IF RatLT(raw, RatInt(0)) THEN RatInt(0)
            ELSE IF RatLT(RatInt(1), raw) THEN RatInt(1)
            ELSE raw

\* C23: the band position of the live generator and of the backtest
\* evaluator both equal (price - lower) / (upper - lower) clamped to [0, 1],
\* and 0.5 when upper = lower.
C23_BandPositionClamped ==
    /\ live_bb_position # <<>> => live_bb_position[1] = ClampedPosition
    /\ backtest_bb_position # <<>> =>
           backtest_bb_position[1] = ClampedPosition

-----------------------------------------------------------------------------
(* SpecPivot: _find_pivot_points over a candle series. Candles are counted  *)
(* from 1, so the loop's range(window, len(df) - window) is                 *)
(* window + 1 .. len(df) - window.                                          *)

MaxPivotCandles == 5

PivotBars == {[high |-> h, low |-> l] : h \in {101, 102}, l \in {98, 99}}
PivotSeries == UNION {[1..n -> PivotBars] : n \in 1..MaxPivotCandles}
Windows == {1, 2}

\* Eleven candles with one peak and one trough, for the default window of 5.
PeakSeries ==
    {[k \in 1..11 |-> [high |-> IF k = p THEN 105 ELSE 100,
                       low |-> IF k = q THEN 85 ELSE 90]] :
        p \in {1, 6, 11}, q \in {1, 6, 11}}

\* df['high'].iloc[j] >= current_high
HighBlocksStrictly(other, current) == other > current
HighBlocks(other, current) == other >= current

\* df['low'].iloc[j] <= current_low
LowBlocks(other, current) == other <= current

\* range(i - window, i + window + 1) without i
Neighbours(i, w) == ((i - w)..(i + w)) \ {i}

\* is_resistance after the inner loop
IsResistance(bars, i, w) ==
    ~\E j \in Neighbours(i, w) : HighBlocks(bars[j].high, bars[i].high)

\* is_support after the inner loop
IsSupport(bars, i, w) ==
    ~\E j \in Neighbours(i, w) : LowBlocks(bars[j].low, bars[i].low)

InitPivot ==
    /\ EvalIdle
    /\ RankIdle
    /\ SweepIdle
    /\ LiveIdle
    /\ LevelsIdle
    /\ IndIdle
    /\ RateIdle
    /\ RangeIdle
    /\ BandIdle
    /\ SharedIdle
    /\ PageIdle
    /\ SelectIdle
    /\ \/ pivot_df \in PivotSeries /\ window \in Windows
       \/ pivot_df \in PeakSeries /\ window = 5
    /\ pivot_i = 0
    /\ highs = <<>>
    /\ lows = <<>>
    /\ pivots = <<>>

\* highs = [], lows = [] and the start of the loop
PivotStart ==
    /\ pivot_i = 0
    /\ highs' = <<>>
    /\ lows' = <<>>
    /\ pivot_i' = window + 1
    /\ UNCHANGED <<pivot_df, window, pivots>>
    /\ UNCHANGED outsidePivot

\* One pass of the loop body: the resistance check, then the support check
PivotCandle ==
    /\ pivot_i > 0
    /\ pivots = <<>>
    /\ pivot_i <= Len(pivot_df) - window
    /\ highs' = IF IsResistance(pivot_df, pivot_i, window)
                THEN Append(highs, pivot_df[pivot_i].high) ELSE highs
    /\ lows' = IF IsSupport(pivot_df, pivot_i, window)
               THEN Append(lows, pivot_df[pivot_i].low) ELSE lows
    /\ pivot_i' = pivot_i + 1
    /\ UNCHANGED <<pivot_df, window, pivots>>
    /\ UNCHANGED outsidePivot

\* return highs, lows
PivotReturn ==
    /\ pivot_i > 0
    /\ pivots = <<>>
    /\ pivot_i > Len(pivot_df) - window
    /\ pivots' = <<[highs |-> highs, lows |-> lows]>>
    /\ UNCHANGED <<pivot_df, window, pivot_i, highs, lows>>
    /\ UNCHANGED outsidePivot

NextPivot ==
    \/ PivotStart
    \/ PivotCandle
    \/ PivotReturn

SpecPivot == InitPivot /\ [][NextPivot]_vars

-----------------------------------------------------------------------------
(* Claims about the pivots *)

\* Candles within `window` of candle i on either side, as far as they exist
Near(i) == {j \in DOMAIN pivot_df : j # i /\ j >= i - window /\ j <= i + window}

NoHighAtLeast(i) == \A j \in Near(i) : pivot_df[j].high < pivot_df[i].high
NoLowAtMost(i) == \A j \in Near(i) : pivot_df[j].low > pivot_df[i].low

\* Candles with `window` candles before them and `window` after them
Interior == {i \in DOMAIN pivot_df : i > window /\ i <= Len(pivot_df) - window}

\* The values of the candles of S that satisfy rule, in candle order
RECURSIVE Chronological(_, _, _, _)
Chronological(S, rule(_), value(_), n) ==
    IF n = 0 THEN <<>>
    ELSE IF n \in S /\ rule(n)
        THEN Append(Chronological(S, rule, value, n - 1), value(n))
    ELSE Chronological(S, rule, value, n - 1)

HighOf(i) == pivot_df[i].high
LowOf(i) == pivot_df[i].low

\* C24 as stated: every candle of the series whose high has no other high
\* >= it within `window` candles on either side is reported as a resistance
\* pivot, and no other; likewise lows and support pivots; both lists are in
\* chronological order.
C24_PivotsOfEveryCandle ==
    pivots # <<>> =>
        /\ pivots[1].highs = Chronological(DOMAIN pivot_df, NoHighAtLeast,
                                           HighOf, Len(pivot_df))
        /\ pivots[1].lows = Chronological(DOMAIN pivot_df, NoLowAtMost,
                                          LowOf, Len(pivot_df))

\* C24 amended: the rule decides the candles that have `window` candles on
\* both sides; the first and last `window` candles are never reported.
C24_PivotsOfInteriorCandles ==
    pivots # <<>> =>
        /\ pivots[1].highs = Chronological(Interior, NoHighAtLeast, HighOf,
                                           Len(pivot_df))
        /\ pivots[1].lows = Chronological(Interior, NoLowAtMost, LowOf,
                                          Len(pivot_df))

\* An interior resistance pivot and an interior support pivot are reported
\* while the first candle, whose high also tops its neighbours, is not.
C24_Witness ==
    /\ pivots # <<>>
    /\ Len(pivots[1].highs) = 1
    /\ Len(pivots[1].lows) = 1
    /\ NoHighAtLeast(1)
    /\ \E i \in Interior : NoHighAtLeast(i) /\ \E j \in Near(i) :
           pivot_df[j].high < pivot_df[i].high

-----------------------------------------------------------------------------
(* Claim about a failed write in SpecRank *)

SavedCoins == {saved[k].coin : k \in DOMAIN saved}

\* C25: when the write of one coin's record fails, the records of all the
\* other coins of the best-per-coin set are still written: at most one coin
\* of the results is without a record after save_best_results.
C25_OtherCoinsStillWritten ==
    rpc = "saved" =>
        Cardinality(CoinsOf(results) \ SavedCoins) <= (IF save_error THEN 1 ELSE 0)

-----------------------------------------------------------------------------
(* SpecShared: generate_signal called from two threads on one generator     *)
(* instance. _load_coin_parameters assigns the instance's attributes one    *)
(* statement at a time; the rest of generate_signal reads them.             *)

SignalThreads == {1, 2}

\* The attributes _load_coin_parameters assigns, in statement order.
AttributeOrder(gen) ==
    IF gen = "support_resistance_1h"
    THEN <<"lookback_periods", "min_touches", "tolerance_percent",
           "min_distance_percent">>
    ELSE <<"period", "std_dev", "touch_threshold">>

NotCalled == [coin |-> "", pc |-> "idle", params |-> <<>>, k |-> 0,
              used |-> <<>>]

\* The value one assignment of _load_coin_parameters stores: the if branch
\* reads the key from params with the default as fallback, the else branch
\* stores the default.
AssignedValue(params, key, defaults) ==
    IF params # <<>> THEN DictGet(params[1], key, defaults[key])
    ELSE defaults[key]

InitShared ==
    /\ EvalIdle
    /\ RankIdle
    /\ SweepIdle
    /\ LiveIdle
    /\ LevelsIdle
    /\ IndIdle
    /\ RateIdle
    /\ RangeIdle
    /\ BandIdle
    /\ PivotIdle
    /\ PageIdle
    /\ SelectIdle
    /\ shared_generator \in Generators
    /\ shared_store \in Stores
    /\ self_params = HardCodedDefaults(shared_generator)
    /\ invocations = [t \in SignalThreads |-> NotCalled]

\* generate_signal(coin) enters _load_coin_parameters:
\* params = self.backtest_loader.get_parameters(coin, strategy)
CallGenerateSignal(t) ==
    /\ invocations[t].pc = "idle"
    /\ \E coin \in Elems(MonitoredCoins) :
         invocations' = [invocations EXCEPT ![t] =
             [coin |-> coin, pc |-> "assign",
              params |-> GetParameters(shared_store, coin,
                                       StrategyKey(shared_generator)),
              k |-> 1, used |-> <<>>]]
    /\ UNCHANGED <<shared_generator, shared_store, self_params>>
    /\ UNCHANGED outsideShared

\* One assignment self.<attribute> = ... of _load_coin_parameters
AssignAttribute(t) ==
    /\ invocations[t].pc = "assign"
    /\ LET order == AttributeOrder(shared_generator)
           key == order[invocations[t].k]
       IN /\ self_params' = [self_params EXCEPT ![key] =
                 AssignedValue(invocations[t].params, key,
                               HardCodedDefaults(shared_generator))]
          /\ invocations' = [invocations EXCEPT ![t] =
                 IF invocations[t].k = Len(order)
                 THEN [@ EXCEPT !.pc = "loaded"]
                 ELSE [@ EXCEPT !.k = @ + 1]]
    /\ UNCHANGED <<shared_generator, shared_store>>
    /\ UNCHANGED outsideShared

\* The rest of generate_signal computes the signal from self.<attribute>
ReadAttributes(t) ==
    /\ invocations[t].pc = "loaded"
    /\ invocations' = [invocations EXCEPT ![t] =
           [@ EXCEPT !.pc = "done", !.used = <<self_params>>]]
    /\ UNCHANGED <<shared_generator, shared_store, self_params>>
    /\ UNCHANGED outsideShared

NextShared ==
    \/ \E t \in SignalThreads : CallGenerateSignal(t)
    \/ \E t \in SignalThreads : AssignAttribute(t)
    \/ \E t \in SignalThreads : ReadAttributes(t)

SpecShared == InitShared /\ [][NextShared]_vars

-----------------------------------------------------------------------------
(* Claim about the parameters a signal is computed with *)

\* The coin's own parameters: each field of its newest record where the
\* record has it, the constructor default otherwise; all defaults when the
\* coin has no record.
OwnParameters(coin) ==
    LET defaults == HardCodedDefaults(shared_generator)
        mine == {k \in DOMAIN shared_store :
                    /\ shared_store[k].coin = coin
                    /\ shared_store[k].signal = StrategyKey(shared_generator)}
    IN IF mine = {} THEN defaults
       ELSE LET newest == CHOOSE k \in mine : \A j \in mine : j <= k
                fields == shared_store[newest].best_parameters
            IN [key \in DOMAIN defaults |->
                   IF key \in DOMAIN fields THEN fields[key]
                   ELSE defaults[key]]

\* C26: however the generate_signal calls on one generator interleave, the
\* signal for a coin is computed with exactly that coin's own parameters.
C26_SignalUsesOwnParameters ==
    \A t \in SignalThreads :
        invocations[t] # NotCalled /\ invocations[t].pc = "done" =>
            invocations[t].used[1] = OwnParameters(invocations[t].coin)

-----------------------------------------------------------------------------
(* SpecPage: the backtest page as the UI thread and its worker threads see  *)
(* it. run_backtest and the select buttons run on the UI thread, which also *)
(* runs the callbacks the workers hand to self.parent.after; each worker    *)
(* runs _execute_optimization. The sweep itself is SpecSweep's; here it is  *)
(* followed only as far as it touches the page: its status callbacks.       *)
(* SpecPageFair adds that a started thread keeps being scheduled.           *)

MaxSweeps == 2

\* self.coins, the page's coin list: one coin is enough here
PageCoins == <<"BTC">>

Button(state, text) == [state |-> state, text |-> text]
AfterCall(widget, text) == [widget |-> widget, text |-> text]

\* if self.running_backtest: return
AlreadyRunningNever(flag) == FALSE
AlreadyRunning(flag) == flag

\* finally: self.running_backtest = False
FlagKept(flag) == flag
FlagAfterFinally(flag) == FALSE

\* _run_all_tests: "Fetching data for c" for every coin, followed by the
\* "Testing i/n" statuses of its combinations, of which one stands for all.
\* The coin is taken to have enough data; skipped coins are SpecSweep's.
RECURSIVE ProgressCalls(_, _)
ProgressCalls(coins, n) ==
    IF n = 0 THEN <<>>
    ELSE ProgressCalls(coins, n - 1)
         \o <<AfterCall("status", "Fetching data"),
              AfterCall("status", "Testing")>>

\* selected_coins = [coin for coin, var in self.coin_vars.items() if var.get()]
SelectedCoins(ticked) == SelectSeq(PageCoins, LAMBDA c : c \in ticked)

InitPage ==
    /\ EvalIdle
    /\ RankIdle
    /\ SweepIdle
    /\ LiveIdle
    /\ LevelsIdle
    /\ IndIdle
    /\ RateIdle
    /\ RangeIdle
    /\ BandIdle
    /\ PivotIdle
    /\ SharedIdle
    /\ SelectIdle
    /\ page_running = FALSE
    /\ coin_vars = Elems(PageCoins)
    /\ run_btn = Button("normal", "RUN OPTIMIZATION")
    /\ status_label = ""
    /\ after_calls = <<>>
    /\ processed = 0
    /\ workers = <<>>
    /\ last_exit = ""

\* run_backtest(), on the UI thread
RunBacktest ==
    IF AlreadyRunning(page_running)
    THEN /\ last_exit' = "running"
         /\ UNCHANGED <<page_running, coin_vars, run_btn, status_label,
                        after_calls, processed, workers>>
         /\ UNCHANGED outsidePage
    ELSE IF SelectedCoins(coin_vars) = <<>>
    THEN /\ status_label' = "Please select at least one coin"
         /\ last_exit' = "no_coins"
         /\ UNCHANGED <<page_running, coin_vars, run_btn, after_calls,
                        processed, workers>>
         /\ UNCHANGED outsidePage
    ELSE /\ Len(workers) < MaxSweeps
         /\ page_running' = TRUE
         /\ run_btn' = Button("disabled", "OPTIMIZING...")
         /\ status_label' = "Starting optimization..."
         /\ workers' = Append(workers, [pc |-> "params",
                                        coins |-> SelectedCoins(coin_vars)])
         /\ last_exit' = "started"
         /\ UNCHANGED <<coin_vars, after_calls, processed>>
         /\ UNCHANGED outsidePage

\* _select_all_coins(), on the UI thread
SelectAllCoins ==
    /\ coin_vars' = Elems(PageCoins)
    /\ UNCHANGED <<page_running, run_btn, status_label, after_calls,
                   processed, workers, last_exit>>
    /\ UNCHANGED outsidePage

\* _deselect_all_coins(), on the UI thread
DeselectAllCoins ==
    /\ coin_vars' = {}
    /\ UNCHANGED <<page_running, run_btn, status_label, after_calls,
                   processed, workers, last_exit>>
    /\ UNCHANGED outsidePage

\* The UI thread runs the oldest callback not yet run
ProcessAfterCall ==
    /\ processed < Len(after_calls)
    /\ LET call == after_calls[processed + 1]
       IN /\ run_btn' = IF call.widget = "run_btn"
                        THEN Button("normal", call.text) ELSE run_btn
          /\ status_label' = IF call.widget = "status"
                             THEN call.text ELSE status_label
    /\ processed' = processed + 1
    /\ UNCHANGED <<page_running, coin_vars, after_calls, workers, last_exit>>
    /\ UNCHANGED outsidePage

\* _execute_optimization, lines 363-367: the parameters are read;
\* float(self.position_size_var.get()) raises on a text that is no number
WorkerReadParameters(w) ==
    /\ workers[w].pc = "params"
    /\ \E text \in PositionSizeTexts :
         workers' = [workers EXCEPT ![w].pc =
                        IF ParseFloat(text) = <<>> THEN "except" ELSE "tests"]
    /\ UNCHANGED <<page_running, coin_vars, run_btn, status_label,
                   after_calls, processed, last_exit>>
    /\ UNCHANGED outsidePage

\* all_results = self._run_all_tests(...): its status callbacks
WorkerRunAllTests(w) ==
    /\ workers[w].pc = "tests"
    /\ after_calls' = after_calls \o
           ProgressCalls(workers[w].coins, Len(workers[w].coins))
    /\ workers' = [workers EXCEPT ![w].pc = "save"]
    /\ UNCHANGED <<page_running, coin_vars, run_btn, status_label, processed,
                   last_exit>>
    /\ UNCHANGED outsidePage

\* lines 373-385: sort, save_best_results, and the two closing callbacks
WorkerSaveAndDisplay(w) ==
    /\ workers[w].pc = "save"
    /\ after_calls' = after_calls \o
           <<AfterCall("results", "display"),
             AfterCall("status", CompletedText)>>
    /\ workers' = [workers EXCEPT ![w].pc = "finally"]
    /\ UNCHANGED <<page_running, coin_vars, run_btn, status_label, processed,
                   last_exit>>
    /\ UNCHANGED outsidePage

\* except Exception as e: the error status
WorkerExcept(w) ==
    /\ workers[w].pc = "except"
    /\ after_calls' = Append(after_calls, AfterCall("status", "Error"))
    /\ workers' = [workers EXCEPT ![w].pc = "finally"]
    /\ UNCHANGED <<page_running, coin_vars, run_btn, status_label, processed,
                   last_exit>>
    /\ UNCHANGED outsidePage

\* finally: self.running_backtest = False
WorkerFinallyReset(w) ==
    /\ workers[w].pc = "finally"
    /\ page_running' = FlagAfterFinally(page_running)
    /\ workers' = [workers EXCEPT ![w].pc = "enable"]
    /\ UNCHANGED <<coin_vars, run_btn, status_label, after_calls, processed,
                   last_exit>>
    /\ UNCHANGED outsidePage

\* finally: self.parent.after(0, lambda: self.run_btn.config(...)); the
\* thread ends
WorkerFinallyEnable(w) ==
    /\ workers[w].pc = "enable"
    /\ after_calls' = Append(after_calls,
                             AfterCall("run_btn", "RUN OPTIMIZATION"))
    /\ workers' = [workers EXCEPT ![w].pc = "ended"]
    /\ UNCHANGED <<page_running, coin_vars, run_btn, status_label, processed,
                   last_exit>>
    /\ UNCHANGED outsidePage

WorkerStep(w) ==
    \/ WorkerReadParameters(w)
    \/ WorkerRunAllTests(w)
    \/ WorkerSaveAndDisplay(w)
    \/ WorkerExcept(w)
    \/ WorkerFinallyReset(w)
    \/ WorkerFinallyEnable(w)

NextPage ==
    \/ RunBacktest
    \/ SelectAllCoins
    \/ DeselectAllCoins
    \/ ProcessAfterCall
    \/ \E w \in DOMAIN workers : WorkerStep(w)

SpecPage == InitPage /\ [][NextPage]_vars

\* A started thread is scheduled until it ends.
SpecPageFair ==
    SpecPage /\ \A w \in 1..MaxSweeps : WF_vars(w \in DOMAIN workers /\ WorkerStep(w))

-----------------------------------------------------------------------------
(* Claims about the sweeps of a page *)

\* A sweep is active from the start of its thread until the thread has
\* reset the running flag in its finally clause.
Active(w) == workers[w].pc \in {"params", "tests", "save", "except", "finally"}
ActiveSweeps == {w \in DOMAIN workers : Active(w)}

pageState == <<page_running, coin_vars, run_btn, status_label, after_calls,
               processed, workers>>

\* C27: at most one sweep is active at any time, and a run_backtest call
\* made while running_backtest is true starts no thread and changes nothing
\* of the page, however the UI calls and the worker's steps interleave.
C27_OneSweepAtATime ==
    /\ [](Cardinality(ActiveSweeps) <= 1)
    /\ [][page_running => Len(workers') = Len(workers)]_vars
    /\ [][page_running /\ last_exit' # last_exit => UNCHANGED pageState]_vars

\* run_backtest has been called during a sweep and has left at its guard.
C27_Witness ==
    /\ last_exit = "running"
    /\ page_running
    /\ Cardinality(ActiveSweeps) = 1

Ended(w) == w \in DOMAIN workers /\ workers[w].pc = "ended"
EnableCalls ==
    {k \in DOMAIN after_calls : after_calls[k].widget = "run_btn"}

\* C28: every started sweep ends, after resetting running_backtest and
\* scheduling the re-enabling of the run button, on the normal and on the
\* error path alike: the flag is set only while a sweep is active, every
\* ended sweep has scheduled its re-enabling, and each started thread ends.
C28_SweepEndsAndResets ==
    /\ [](page_running => ActiveSweeps # {})
    /\ [](Cardinality(EnableCalls)
              = Cardinality({w \in DOMAIN workers : Ended(w)}))
    /\ \A w \in 1..MaxSweeps : (w \in DOMAIN workers) ~> Ended(w)

\* A sweep that failed has ended, the flag is reset, and a second sweep was
\* started after it and has ended normally.
C28_Witness ==
    /\ Len(workers) = 2
    /\ Ended(1) /\ Ended(2)
    /\ ~page_running
    /\ \E j, k \in DOMAIN after_calls :
           /\ j < k
           /\ after_calls[j] = AfterCall("status", "Error")
           /\ after_calls[k] = AfterCall("status", CompletedText)
    /\ Cardinality(EnableCalls) = 2

\* ------------------------------------------------------------------------
\* SpecSelect: two optimizer runs side by side, from the strategy dropdown to
\* the persisted record.  Each run selects a dropdown value, evaluates one
\* parameter tuple for one coin and persists the row as the coin's best.
\* ------------------------------------------------------------------------

MaxTuples == 4

\* _create_config_panel, lines 127-129: the values of the strategy dropdown.
DropdownValues ==
    {"RSI 1min", "RSI 5min", "RSI 1h", "RSI 4h", "SMA 5min", "Range 24h Low",
     "Range 7days Low", "Scalping 1min", "MACD 15min",
     "Support/Resistance 1H"}

\* _on_signal_changed, lines 234-239: the ranges used when the configuration
\* has no entry for the selection, so that _generate_combinations takes every
\* list other than the RSI lists from its own defaults.
UnconfiguredRanges ==
    [period |-> <<10, 12, 14, 16, 18, 20>>,
     oversold |-> <<25, 28, 30, 32, 35>>,
     overbought |-> <<65, 68, 70, 72, 75>>]

\* The first MaxTuples tuples of _generate_combinations, in product order.
FirstCombinations(st) ==
    LET all == Product(RangesOf(st, UnconfiguredRanges))
        n == IF Len(all) < MaxTuples THEN Len(all) ELSE MaxTuples
    IN {all[k] : k \in 1..n}

\* _run_strategy_backtest: the evaluator family the selection is dispatched
\* to; every value without a branch of its own goes to run_rsi_backtest.
StrategyEvaluator(st) ==
    IF st = "SMA 5min" THEN "sma"
    ELSE IF st \in RangeSignals THEN "range"
    ELSE IF st = "Scalping 1min" THEN "scalping"
    ELSE IF st = "MACD 15min" THEN "macd"
    ELSE "rsi"

SelectRuns == {1, 2}
SelectCoin == "BTC"
SelectProfit == CHOOSE p \in SweepProfits : TRUE

InitSelect ==
    /\ EvalIdle
    /\ RankIdle
    /\ SweepIdle
    /\ LiveIdle
    /\ LevelsIdle
    /\ IndIdle
    /\ RateIdle
    /\ RangeIdle
    /\ BandIdle
    /\ PivotIdle
    /\ SharedIdle
    /\ PageIdle
    /\ sel_types \in [SelectRuns -> DropdownValues]
    /\ \E t1 \in FirstCombinations(sel_types[1]),
          t2 \in FirstCombinations(sel_types[2]) : sel_tuples = <<t1, t2>>
    /\ sel_evaluators = [k \in SelectRuns |-> ""]
    /\ sel_rows = [k \in SelectRuns |-> <<>>]
    /\ sel_records = [k \in SelectRuns |-> <<>>]

\* _run_strategy_backtest for run k: dispatch, and the row that comes back.
SelectEvaluate(k) ==
    /\ sel_rows[k] = <<>>
    /\ sel_evaluators' =
          [sel_evaluators EXCEPT ![k] = StrategyEvaluator(sel_types[k])]
    /\ sel_rows' =
          [sel_rows EXCEPT
              ![k] = <<StrategyRow(sel_types[k], SelectCoin, sel_tuples[k],
                                   SelectProfit)>>]
    /\ UNCHANGED <<sel_types, sel_tuples, sel_records>>
    /\ UNCHANGED outsideSelect

\* _save_and_display_results for run k: the row is the coin's best and is
\* written under the identifier _get_signal_filename gives.
SelectPersist(k) ==
    /\ sel_rows[k] # <<>>
    /\ sel_records[k] = <<>>
    /\ sel_records' =
          [sel_records EXCEPT
              ![k] = <<SaveData(sel_rows[k][1], SignalFilename(sel_types[k]),
                                "24 Hours", 100)>>]
    /\ UNCHANGED <<sel_types, sel_tuples, sel_evaluators, sel_rows>>
    /\ UNCHANGED outsideSelect

NextSelect == \E k \in SelectRuns : SelectEvaluate(k) \/ SelectPersist(k)

SpecSelect == InitSelect /\ [][NextSelect]_vars

\* The evaluator family a dropdown value names.
OwnFamily(st) ==
    CASE st \in {"RSI 1min", "RSI 5min", "RSI 1h", "RSI 4h"} -> "rsi"
      [] st = "SMA 5min" -> "sma"
      [] st \in RangeSignals -> "range"
      [] st = "Scalping 1min" -> "scalping"
      [] st = "MACD 15min" -> "macd"
      [] st = "Support/Resistance 1H" -> "support_resistance"

\* The (coin, strategy) key of a persisted record.
RecordKey(rec) == <<rec.coin, rec.signal>>

\* C29: every selectable strategy is evaluated by the evaluator of its own
\* family, and two runs of different selectable strategies never persist
\* records with the same (coin, strategy) key.
C29_OwnEvaluatorAndIdentifier ==
    /\ \A k \in DOMAIN sel_rows :
          sel_rows[k] # <<>> => sel_evaluators[k] = OwnFamily(sel_types[k])
    /\ \A j, k \in DOMAIN sel_records :
          (/\ sel_types[j] # sel_types[k]
           /\ sel_records[j] # <<>>
           /\ sel_records[k] # <<>>)
          => RecordKey(sel_records[j][1]) # RecordKey(sel_records[k][1])

\* The parameter fields of a row, and of a record's best_parameters.
ParameterFields(r) == <<r.period, r.oversold, r.overbought>>

\* C30: for one strategy and one coin, two distinct parameter tuples never
\* give rows with identical parameter fields, nor records with identical
\* best_parameters.
C30_ParameterFieldsIdentifyTuple ==
    \A j, k \in DOMAIN sel_rows :
        (sel_types[j] = sel_types[k] /\ sel_tuples[j] # sel_tuples[k])
        => /\ (sel_rows[j] # <<>> /\ sel_rows[k] # <<>>)
              => ParameterFields(sel_rows[j][1])
                    # ParameterFields(sel_rows[k][1])
           /\ (sel_records[j] # <<>> /\ sel_records[k] # <<>>)
              => ParameterFields(sel_records[j][1].best_parameters)
                    # ParameterFields(sel_records[k][1].best_parameters)

=============================================================================
